---- MODULE Spec2Model ----
(***************************************************************************)
(* Model of OpenCHAMI node-orchestrator.                                   *)
(*                                                                         *)
(* Part 1: the collection manager (pkg/nodes/collectionmanager.go,         *)
(* pkg/nodes/collections.go) as it is driven by the NodeCollection request *)
(* handlers (collection_handlers.go) on the manager that NodeRoutes        *)
(* (main.go) constructs.                                                   *)
(***************************************************************************)
EXTENDS Integers, Sequences, FiniteSets, TLC

\* ------------------------------------------------------------------------
\* Bounds of the model
\* ------------------------------------------------------------------------

\* Number of collections that are ever stored (successful uuid.New() draws).
MaxCollections == 2

\* ------------------------------------------------------------------------
\* Values
\* ------------------------------------------------------------------------

\* Node XNames that request bodies may list as members.
NodeXnames == {"x1c0s0b0n0", "x1c0s0b0n1"}

\* Collection names a request body may carry; "" is the absent name.
Names == {"", "a", "b"}

\* The NodeCollectionType constants.
DefaultType == "ad-hoc"
TenantType == "tenant"
JobType == "job"
PartitionType == "partition"
NodeCollectionTypes == {DefaultType, TenantType, JobType, PartitionType}

\* uuid.Nil, the value uuid.Parse returns together with an error.
NilUUID == 0

\* The UUIDs uuid.New() hands out, in the order it hands them out.
UUIDs == 1 .. MaxCollections

\* uuid.UUID.String
String(id) == ToString(id)

\* uuid.Parse: the UUID whose string form is s, else uuid.Nil (and an error).
Parse(s) ==
    IF \E id \in UUIDs : String(id) = s
    THEN CHOOSE id \in UUIDs : String(id) = s
    ELSE NilUUID

\* Go maps as functions on their key set.
EmptyMap == [k \in {} |-> k]
Put(m, k, v) == [x \in (DOMAIN m) \cup {k} |-> IF x = k THEN v ELSE m[x]]
Delete(m, k) == [x \in (DOMAIN m) \ {k} |-> m[x]]

\* error values: nil, or a message (its format) with the values formatted
\* into it.
NilError == [msg |-> "nil", args |-> << >>]
Errorf(msg, args) == [msg |-> msg, args |-> args]

\* The formats of the two errors the manager builds for a rejected call.
ConflictMsg == "node %s is already assigned to another collection"
AliasMsg == "alias %s is already in use"

\* The NodeCollection fields the manager reads.
NodeCollection(id, name, type, nodes) ==
    [ID |-> id, Name |-> name, Type |-> type, Nodes |-> nodes]

\* Member lists of request bodies: the sequences of distinct XNames.
MemberLists ==
    {nodes \in UNION {[1 .. n -> NodeXnames] : n \in 0 .. Cardinality(NodeXnames)} :
        \A i, j \in 1 .. Len(nodes) : nodes[i] = nodes[j] => i = j}

\* Decoded request bodies; the ID of a body is overwritten by both handlers.
\* TypeBodies vary the type of an unnamed collection with at most one member:
\* two constrained types and one that has no constraint registered.
TypeBodies ==
    {NodeCollection(NilUUID, "", type, nodes) :
        type \in {PartitionType, TenantType, JobType},
        nodes \in {<< >>, <<"x1c0s0b0n0">>}}

\* MemberBodies vary the member list of an unnamed partition collection.
MemberBodies ==
    {NodeCollection(NilUUID, "", PartitionType, nodes) : nodes \in MemberLists}

\* NameBodies vary the name of an empty job collection and of a partition
\* collection with one member.
NameBodies ==
    {NodeCollection(NilUUID, name, JobType, << >>) : name \in Names}
    \cup {NodeCollection(NilUUID, name, PartitionType, <<"x1c0s0b0n0">>) : name \in Names}

\* IDBodies carry an ID of the caller's choosing: none, or one that
\* uuid.New() hands out. Each body has its own name, so a stored record tells
\* which body it was decoded from.
IDBodies ==
    {NodeCollection(NilUUID, "", JobType, << >>),
     NodeCollection(1, "b", JobType, << >>),
     NodeCollection(2, "a", JobType, << >>)}

\* The {identifier} URL parameter: the string form of a UUID, or a name.
Identifiers == {String(id) : id \in UUIDs} \cup (Names \ {""})

\* The identifiers sent while every collection is unnamed: the UUIDs and one
\* name, which resolves to nothing.
UnnamedIdentifiers == {String(id) : id \in UUIDs} \cup {"a"}

\* ------------------------------------------------------------------------
\* State
\* ------------------------------------------------------------------------

VARIABLES
    CollectionsByID,    \* CollectionManager.CollectionsByID
    CollectionsByName,  \* CollectionManager.CollectionsByName
    ExistingNodes,      \* per constraint instance: MutualExclusivityConstraint.ExistingNodes
    nextUUID,           \* the next value uuid.New() returns
    result,             \* outcome of the last request
    pc,                 \* per request worker: its position in CreateCollection
    call,               \* per request worker: the collection of its call
    ret,                \* per request worker: what its call returned
    engine,             \* the storage.NodeStorage implementation in use
    inMemoryNodes,      \* InMemoryStorage.nodes
    bmcEntries,         \* InMemoryStorage.bmcEntries
    compute_nodes,      \* DuckDBStorage: the rows of table compute_nodes
    bmcs,               \* DuckDBStorage: the rows of table bmcs
    nextBMCUUID,        \* the next value uuid.New() returns for a BMC
    foundNodes,         \* the nodes the last searchNodes request returned
    snapshotRoot,       \* the file system under the snapshot root
    snapshotDir,        \* what findMostRecentSnapshotDir returned last
    lifecycle,          \* how far serveAPI has come
    logged,             \* the log entries written
    routine,            \* the snapshotRoutine goroutine
    clock,              \* time.Now()
    ticks,              \* the ticks the routine has taken from ticker.C
    flags,              \* the command-line flags of serve
    tablesCreated,      \* DuckDBStorage: whether the tables exist
    lastExport,         \* outcome of the last SnapshotParquet
    shutdownPC,         \* the step Shutdown takes next
    snapshotCancelled,  \* whether the context of the snapshotRoutine is cancelled
    snapshotWG,         \* DuckDBStorage.wg
    shutdownDeadline,   \* whether the context of Shutdown has expired
    tickPending,        \* whether a tick waits in ticker.C
    componentsTable,    \* DuckDBStorage: the rows of table components
    nextComponentUID,   \* the next value uuid.New() returns for a component
    componentsErr,      \* what the last CreateOrUpdateComponents returned
    loggerConfig,       \* EventLogger.config
    shutdownChan,       \* EventLogger.shutdownChan
    loggerWG,           \* EventLogger.wg
    eventsTable,        \* EventLogger: the rows of table events
    eventFiles,         \* EventLogger: the events written to the files under BaseDir
    flushLoop,          \* the goroutine of StartPeriodicFlush
    stopCall,           \* the caller of EventLogger.Stop
    checkedXName,       \* the XName handed to the validation
    checkedValid        \* what the validation returned for it

vars == <<CollectionsByID, CollectionsByName, ExistingNodes, nextUUID, result, pc, call, ret,
          engine, inMemoryNodes, bmcEntries, compute_nodes, bmcs, nextBMCUUID, foundNodes,
          snapshotRoot, snapshotDir, lifecycle, logged, routine, clock, ticks, flags,
          tablesCreated, lastExport, shutdownPC, snapshotCancelled, snapshotWG,
          shutdownDeadline, tickPending, componentsTable, nextComponentUID, componentsErr,
          loggerConfig, shutdownChan, loggerWG, eventsTable, eventFiles, flushLoop,
          stopCall, checkedXName, checkedValid>>

\* The state of the snapshot subsystem.
snapshotVars == <<snapshotRoot, snapshotDir, lifecycle, logged, routine, clock, ticks,
                  flags, tablesCreated, lastExport>>

\* The state of the service around the inventory engine.
\* The state of Shutdown and of what it coordinates with the snapshotRoutine.
shutdownVars == <<shutdownPC, snapshotCancelled, snapshotWG, shutdownDeadline, tickPending>>

\* The state of the component table, of the event logger and of the XName
\* validation.
componentVars == <<componentsTable, nextComponentUID, componentsErr>>
loggerVars == <<loggerConfig, shutdownChan, loggerWG, eventsTable, eventFiles, flushLoop,
                stopCall>>
xnameVars == <<checkedXName, checkedValid>>
peripheralVars == <<componentVars, loggerVars, xnameVars>>

serviceVars == <<foundNodes, snapshotVars, shutdownVars, peripheralVars>>

\* The state of the inventory engine.
inventoryVars == <<engine, inMemoryNodes, bmcEntries, compute_nodes, bmcs, nextBMCUUID>>

\* The state of the collection manager.
managerVars == <<CollectionsByID, CollectionsByName, ExistingNodes>>

\* The two implementations of storage.NodeStorage.
StorageEngines == {"memory", "duckdb"}

\* The state of the request workers that run calls step by step.
workerVars == <<pc, call, ret>>

\* Two request workers (net/http serves each request on its own goroutine).
Workers == {"w1", "w2"}

\* The constraint instances: one MutualExclusivityConstraint allocated by each
\* AddConstraint call of NewCollectionManager and NodeRoutes.
ConstraintInstances == {"mec-partition", "mec-tenant", "mec-ad-hoc"}

\* Mutant: one shared constraint instance registered for every type.
ConstraintsShared ==
    [t \in {PartitionType, TenantType, DefaultType} |-> "mec-partition"]

\* CollectionManager.Constraints after NewCollectionManager and NodeRoutes:
\* collection type -> constraint instance.
Constraints ==
    [t \in {PartitionType, TenantType, DefaultType} |->
        CASE t = PartitionType -> "mec-partition"
          [] t = TenantType -> "mec-tenant"
          [] t = DefaultType -> "mec-ad-hoc"]

\* Mutant: reports the last claimed member instead of the first.
ValidateLast(existing, nodes) ==
    LET claimed == {i \in 1 .. Len(nodes) : nodes[i] \in DOMAIN existing}
    IN  IF claimed = {}
        THEN NilError
        ELSE Errorf(ConflictMsg,
                    <<nodes[CHOOSE i \in claimed : \A j \in claimed : j <= i]>>)

\* MutualExclusivityConstraint.Validate: the first member, in list order, that
\* has an entry in ExistingNodes is reported; nil when there is none.
Validate(existing, nodes) ==
    LET claimed == {i \in 1 .. Len(nodes) : nodes[i] \in DOMAIN existing}
    IN  IF claimed = {}
        THEN NilError
        ELSE Errorf(ConflictMsg,
                    <<nodes[CHOOSE i \in claimed : \A j \in claimed : i <= j]>>)

\* The constraint check at the head of CreateCollection and UpdateCollection.
ValidateConstraint(collection) ==
    IF collection.Type \in DOMAIN Constraints
    THEN Validate(ExistingNodes[Constraints[collection.Type]], collection.Nodes)
    ELSE NilError

\* The loop of CreateCollection that records every member as claimed.
Claim(existing, nodes, id) ==
    [x \in (DOMAIN existing) \cup {nodes[i] : i \in 1 .. Len(nodes)} |->
        IF \E i \in 1 .. Len(nodes) : nodes[i] = x THEN id ELSE existing[x]]

\* CollectionManager.GetCollection
NoCollection == NodeCollection(NilUUID, "", "", << >>)
GetCollection(identifier) ==
    LET id == Parse(identifier)
    IN  IF id \in DOMAIN CollectionsByID
        THEN [exists |-> TRUE, collection |-> CollectionsByID[id]]
        ELSE IF identifier \in DOMAIN CollectionsByName
        THEN [exists |-> TRUE, collection |-> CollectionsByName[identifier]]
        ELSE [exists |-> FALSE, collection |-> NoCollection]

\* What a handler leaves behind: the operation, the HTTP status, the error of
\* the manager call, and the ID of the collection the call was about.
Result(op, status, err, id) == [op |-> op, status |-> status, err |-> err, id |-> id]

\* The snapshot root: whether the directory exists, and its entries.
SnapshotRoot(exists, entries) == [exists |-> exists, entries |-> entries]
MissingRoot == SnapshotRoot(FALSE, {})

\* What findMostRecentSnapshotDir returns: the name of the directory under
\* the root, and the error.
SnapshotDir(name, err) == [name |-> name, err |-> err]
NoSnapshotDir == SnapshotDir(<< >>, NilError)

\* The flags of the serve command: init-tables, snapshot-freq (in ticks of
\* the clock), snapshot-dir, restore. The flag dir keeps its default.
ServeFlags(initTables, snapshotFreq, snapshotDirCreate, restoreSnapshot) ==
    [initTables |-> initTables, snapshotFreq |-> snapshotFreq,
     snapshotDirCreate |-> snapshotDirCreate, restoreSnapshot |-> restoreSnapshot]
NoFlags == ServeFlags(FALSE, 0, FALSE, FALSE)

\* The snapshot subsystem with the given root, serveAPI at the given phase,
\* no goroutine started and nothing logged.
SnapshotInit(root, phase, tables, fl) ==
    /\ snapshotRoot = root
    /\ snapshotDir = NoSnapshotDir
    /\ lifecycle = phase
    /\ logged = {}
    /\ routine = "none"
    /\ clock = 1
    /\ ticks = 0
    /\ flags = fl
    /\ tablesCreated = tables
    /\ lastExport = "none"
    /\ shutdownPC = "idle"
    /\ snapshotCancelled = FALSE
    /\ snapshotWG = 0
    /\ shutdownDeadline = FALSE
    /\ tickPending = FALSE

\* The component table before any component is stored, no event logger
\* created yet, and no XName validated yet.
NoXName == [cabinet |-> << >>, chassis |-> << >>, slot |-> << >>, bmc |-> << >>, node |-> << >>]
NoVerdict == [done |-> FALSE, ok |-> FALSE, err |-> NilError]
EventLoggerConfig(created, retainInDB) == [Created |-> created, RetainInDB |-> retainInDB]
NoLoggerConfig == EventLoggerConfig(FALSE, FALSE)
PeripheralInit ==
    /\ componentsTable = {}
    /\ nextComponentUID = 1
    /\ componentsErr = NilError
    /\ loggerConfig = NoLoggerConfig
    /\ shutdownChan = "open"
    /\ loggerWG = 0
    /\ eventsTable = {}
    /\ eventFiles = {}
    /\ flushLoop = "none"
    /\ stopCall = "none"
    /\ checkedXName = NoXName
    /\ checkedValid = NoVerdict

\* The collection manager, the request workers and the empty tables of
\* storage engine e.
InventoryInit(e) ==
    /\ PeripheralInit
    /\ CollectionsByID = EmptyMap
    /\ CollectionsByName = EmptyMap
    /\ ExistingNodes = [c \in ConstraintInstances |-> EmptyMap]
    /\ nextUUID = 1
    /\ result = Result("none", 0, NilError, NilUUID)
    /\ pc = [w \in Workers |-> "idle"]
    /\ call = [w \in Workers |-> NoCollection]
    /\ ret = [w \in Workers |-> NilError]
    /\ engine = e
    /\ inMemoryNodes = EmptyMap
    /\ bmcEntries = EmptyMap
    /\ compute_nodes = {}
    /\ bmcs = {}
    /\ nextBMCUUID = 1
    /\ foundNodes = {}

\* The state after NewCollectionManager, NodeRoutes and the construction of
\* storage engine e with empty tables: the server is running, without a
\* snapshot root.
InitWith(e) ==
    /\ InventoryInit(e)
    /\ SnapshotInit(MissingRoot, "Running", TRUE, NoFlags)

\* The server as main wires it: NewDuckDBStorage.
Init == InitWith("duckdb")

\* Mutant: the collection is indexed by ID before the alias check.
CreateCollectionIndexFirst(body) ==
    LET collection == [body EXCEPT !.ID = nextUUID]
        verr == ValidateConstraint(collection)
    IN  /\ nextUUID \in UUIDs
        /\ IF verr # NilError
           THEN /\ result' = Result("create", 400, verr, collection.ID)
                /\ UNCHANGED <<CollectionsByID, CollectionsByName, ExistingNodes, nextUUID>>
           ELSE IF collection.Name # "" /\ collection.Name \in DOMAIN CollectionsByName
           THEN /\ result' = Result("create", 400,
                        Errorf(AliasMsg, <<collection.Name>>),
                        collection.ID)
                /\ CollectionsByID' = Put(CollectionsByID, collection.ID, collection)
                /\ UNCHANGED <<CollectionsByName, ExistingNodes, nextUUID>>
           ELSE /\ CollectionsByName' =
                      IF collection.Name # ""
                      THEN Put(CollectionsByName, collection.Name, collection)
                      ELSE CollectionsByName
                /\ CollectionsByID' = Put(CollectionsByID, collection.ID, collection)
                /\ ExistingNodes' =
                      IF collection.Type \in DOMAIN Constraints
                      THEN [ExistingNodes EXCEPT ![Constraints[collection.Type]] =
                                Claim(@, collection.Nodes, collection.ID)]
                      ELSE ExistingNodes
                /\ nextUUID' = nextUUID + 1
                /\ result' = Result("create", 201, NilError, collection.ID)

\* The createCollection handler with CollectionManager.CreateCollection.
\* The UUID drawn for a rejected collection is stored nowhere, so the draw
\* advances only when the collection is stored.
CreateCollection(body) ==
    LET collection == [body EXCEPT !.ID = nextUUID]
        verr == ValidateConstraint(collection)
    IN  /\ nextUUID \in UUIDs
        /\ IF verr # NilError
           THEN /\ result' = Result("create", 400, verr, collection.ID)
                /\ UNCHANGED <<CollectionsByID, CollectionsByName, ExistingNodes, nextUUID>>
           ELSE IF collection.Name # "" /\ collection.Name \in DOMAIN CollectionsByName
           THEN /\ result' = Result("create", 400,
                        Errorf(AliasMsg, <<collection.Name>>),
                        collection.ID)
                /\ UNCHANGED <<CollectionsByID, CollectionsByName, ExistingNodes, nextUUID>>
           ELSE /\ CollectionsByName' =
                      IF collection.Name # ""
                      THEN Put(CollectionsByName, collection.Name, collection)
                      ELSE CollectionsByName
                /\ CollectionsByID' = Put(CollectionsByID, collection.ID, collection)
                /\ ExistingNodes' =
                      IF collection.Type \in DOMAIN Constraints
                      THEN [ExistingNodes EXCEPT ![Constraints[collection.Type]] =
                                Claim(@, collection.Nodes, collection.ID)]
                      ELSE ExistingNodes
                /\ nextUUID' = nextUUID + 1
                /\ result' = Result("create", 201, NilError, collection.ID)

\* Mutant: UpdateCollection without the alias check.
UpdateCollectionNoAliasCheck(collection) ==
    LET verr == ValidateConstraint(collection)
    IN  IF verr # NilError
        THEN /\ result' = Result("update", 400, verr, collection.ID)
             /\ UNCHANGED <<CollectionsByID, CollectionsByName, ExistingNodes, nextUUID>>
        ELSE /\ CollectionsByName' =
                   IF collection.Name # ""
                   THEN Put(CollectionsByName, collection.Name, collection)
                   ELSE CollectionsByName
             /\ CollectionsByID' = Put(CollectionsByID, collection.ID, collection)
             /\ result' = Result("update", 200, NilError, collection.ID)
             /\ UNCHANGED <<ExistingNodes, nextUUID>>

\* CollectionManager.UpdateCollection, called with the ID the handler set.
UpdateCollection(collection) ==
    LET verr == ValidateConstraint(collection)
    IN  IF verr # NilError
        THEN /\ result' = Result("update", 400, verr, collection.ID)
             /\ UNCHANGED <<CollectionsByID, CollectionsByName, ExistingNodes, nextUUID>>
        ELSE IF /\ collection.Name # ""
                /\ collection.Name \in DOMAIN CollectionsByName
                /\ CollectionsByName[collection.Name].ID # collection.ID
        THEN /\ result' = Result("update", 400,
                     Errorf(AliasMsg, <<collection.Name>>),
                     collection.ID)
             /\ UNCHANGED <<CollectionsByID, CollectionsByName, ExistingNodes, nextUUID>>
        ELSE /\ CollectionsByName' =
                   IF collection.Name # ""
                   THEN Put(CollectionsByName, collection.Name, collection)
                   ELSE CollectionsByName
             /\ CollectionsByID' = Put(CollectionsByID, collection.ID, collection)
             /\ result' = Result("update", 200, NilError, collection.ID)
             /\ UNCHANGED <<ExistingNodes, nextUUID>>

\* Mutant: the handler hands the body to the manager with the body's own ID.
UpdateCollectionHandlerBodyID(identifier, body) ==
    LET found == GetCollection(identifier)
    IN  IF ~found.exists
        THEN /\ result' = Result("update", 404, NilError, NilUUID)
             /\ UNCHANGED <<CollectionsByID, CollectionsByName, ExistingNodes, nextUUID>>
        ELSE UpdateCollection(body)

\* The updateCollection handler: resolve the identifier, keep the ID of the
\* collection found, hand the body to the manager.
UpdateCollectionHandler(identifier, body) ==
    LET found == GetCollection(identifier)
    IN  IF ~found.exists
        THEN /\ result' = Result("update", 404, NilError, NilUUID)
             /\ UNCHANGED <<CollectionsByID, CollectionsByName, ExistingNodes, nextUUID>>
        ELSE UpdateCollection([body EXCEPT !.ID = found.collection.ID])

\* CollectionManager.DeleteCollection
DeleteCollection(collectionID) ==
    IF collectionID \notin DOMAIN CollectionsByID
    THEN /\ result' = Result("delete", 500,
                 Errorf("collection %s not found", <<String(collectionID)>>),
                 collectionID)
         /\ UNCHANGED <<CollectionsByID, CollectionsByName, ExistingNodes, nextUUID>>
    ELSE LET collection == CollectionsByID[collectionID]
         IN  /\ CollectionsByName' =
                   IF collection.Name # ""
                   THEN Delete(CollectionsByName, collection.Name)
                   ELSE CollectionsByName
             /\ CollectionsByID' = Delete(CollectionsByID, collectionID)
             /\ result' = Result("delete", 204, NilError, collectionID)
             /\ UNCHANGED <<ExistingNodes, nextUUID>>

\* The deleteCollection handler: the identifier must parse as a UUID.
DeleteCollectionHandler(identifier) ==
    LET id == Parse(identifier)
    IN  IF id = NilUUID
        THEN /\ result' = Result("delete", 400,
                     Errorf("invalid UUID %s", <<identifier>>), NilUUID)
             /\ UNCHANGED <<CollectionsByID, CollectionsByName, ExistingNodes, nextUUID>>
        ELSE DeleteCollection(id)

\* Requests that vary the collection type.
TypeNext ==
    \/ \E body \in TypeBodies : CreateCollection(body) /\ UNCHANGED <<workerVars, inventoryVars, serviceVars>>
    \/ \E identifier \in UnnamedIdentifiers, body \in TypeBodies :
            UpdateCollectionHandler(identifier, body) /\ UNCHANGED <<workerVars, inventoryVars, serviceVars>>
    \/ \E identifier \in UnnamedIdentifiers :
            DeleteCollectionHandler(identifier) /\ UNCHANGED <<workerVars, inventoryVars, serviceVars>>

SpecTypes == Init /\ [][TypeNext]_vars

\* Requests that vary membership.
MemberNext ==
    \/ \E body \in MemberBodies : CreateCollection(body) /\ UNCHANGED <<workerVars, inventoryVars, serviceVars>>
    \/ \E identifier \in UnnamedIdentifiers, body \in MemberBodies :
            UpdateCollectionHandler(identifier, body) /\ UNCHANGED <<workerVars, inventoryVars, serviceVars>>
    \/ \E identifier \in UnnamedIdentifiers :
            DeleteCollectionHandler(identifier) /\ UNCHANGED <<workerVars, inventoryVars, serviceVars>>

SpecMembers == Init /\ [][MemberNext]_vars

\* Requests that vary names.
NameNext ==
    \/ \E body \in NameBodies : CreateCollection(body) /\ UNCHANGED <<workerVars, inventoryVars, serviceVars>>
    \/ \E identifier \in Identifiers, body \in NameBodies :
            UpdateCollectionHandler(identifier, body) /\ UNCHANGED <<workerVars, inventoryVars, serviceVars>>
    \/ \E identifier \in Identifiers :
            DeleteCollectionHandler(identifier) /\ UNCHANGED <<workerVars, inventoryVars, serviceVars>>

SpecNames == Init /\ [][NameNext]_vars

\* Requests whose bodies carry an ID.
IDNext ==
    \/ \E body \in IDBodies : CreateCollection(body) /\ UNCHANGED <<workerVars, inventoryVars, serviceVars>>
    \/ \E identifier \in Identifiers, body \in IDBodies :
            UpdateCollectionHandler(identifier, body) /\ UNCHANGED <<workerVars, inventoryVars, serviceVars>>
    \/ \E identifier \in Identifiers :
            DeleteCollectionHandler(identifier) /\ UNCHANGED <<workerVars, inventoryVars, serviceVars>>

SpecIDs == Init /\ [][IDNext]_vars

\* ------------------------------------------------------------------------
\* CreateCollection run by two request workers, statement by statement.
\* The manager has no lock: NodeRoutes hands the one manager to every handler.
\* ------------------------------------------------------------------------

\* Bodies of the concurrent requests: unnamed collections of a constrained type.
RaceBodies ==
    {NodeCollection(NilUUID, "", type, nodes) :
        type \in {PartitionType, TenantType}, nodes \in MemberLists \ {<< >>}}

\* The handler decodes the body and CreateCollection draws the UUID.
CreateBegin(w, body) ==
    /\ pc[w] \in {"idle", "done"}
    /\ nextUUID \in UUIDs
    /\ call' = [call EXCEPT ![w] = [body EXCEPT !.ID = nextUUID]]
    /\ nextUUID' = nextUUID + 1
    /\ pc' = [pc EXCEPT ![w] = "validate"]
    /\ ret' = [ret EXCEPT ![w] = NilError]
    /\ UNCHANGED <<CollectionsByID, CollectionsByName, ExistingNodes, result>>

\* constraint.Validate(collection.Nodes), and the return on its error.
CreateValidate(w) ==
    /\ pc[w] = "validate"
    /\ LET verr == ValidateConstraint(call[w])
       IN  IF verr # NilError
           THEN /\ ret' = [ret EXCEPT ![w] = verr]
                /\ pc' = [pc EXCEPT ![w] = "done"]
           ELSE /\ pc' = [pc EXCEPT ![w] = "alias"]
                /\ UNCHANGED ret
    /\ UNCHANGED <<CollectionsByID, CollectionsByName, ExistingNodes, nextUUID, result, call>>

\* The alias check and CollectionsByName[collection.Name] = collection.
CreateAlias(w) ==
    /\ pc[w] = "alias"
    /\ IF call[w].Name # "" /\ call[w].Name \in DOMAIN CollectionsByName
       THEN /\ ret' = [ret EXCEPT ![w] = Errorf(AliasMsg, <<call[w].Name>>)]
            /\ pc' = [pc EXCEPT ![w] = "done"]
            /\ UNCHANGED CollectionsByName
       ELSE /\ CollectionsByName' =
                  IF call[w].Name # ""
                  THEN Put(CollectionsByName, call[w].Name, call[w])
                  ELSE CollectionsByName
            /\ pc' = [pc EXCEPT ![w] = "index"]
            /\ UNCHANGED ret
    /\ UNCHANGED <<CollectionsByID, ExistingNodes, nextUUID, result, call>>

\* CollectionsByID[collection.ID] = collection
CreateIndex(w) ==
    /\ pc[w] = "index"
    /\ CollectionsByID' = Put(CollectionsByID, call[w].ID, call[w])
    /\ pc' = [pc EXCEPT ![w] = "claim"]
    /\ UNCHANGED <<CollectionsByName, ExistingNodes, nextUUID, result, call, ret>>

\* The loop over collection.Nodes that fills ExistingNodes, and return nil.
CreateClaim(w) ==
    /\ pc[w] = "claim"
    /\ ExistingNodes' =
          IF call[w].Type \in DOMAIN Constraints
          THEN [ExistingNodes EXCEPT ![Constraints[call[w].Type]] =
                    Claim(@, call[w].Nodes, call[w].ID)]
          ELSE ExistingNodes
    /\ ret' = [ret EXCEPT ![w] = NilError]
    /\ pc' = [pc EXCEPT ![w] = "done"]
    /\ UNCHANGED <<CollectionsByID, CollectionsByName, nextUUID, result, call>>

\* The map a worker's next statement reads or writes.
Reads(w) ==
    CASE pc[w] = "validate" -> {Constraints[call[w].Type]}
      [] pc[w] = "alias" /\ call[w].Name # "" -> {"CollectionsByName"}
      [] OTHER -> {}
Writes(w) ==
    CASE pc[w] = "alias" /\ call[w].Name # "" -> {"CollectionsByName"}
      [] pc[w] = "index" -> {"CollectionsByID"}
      [] pc[w] = "claim" -> {Constraints[call[w].Type]}
      [] OTHER -> {}

\* Unsynchronised access to one Go map by two goroutines, one of them
\* writing, is a data race: besides every interleaving of the statements,
\* the runtime may stop the process (fatal error: concurrent map writes).
ConcurrentMapAccess ==
    /\ \E w1, w2 \in Workers :
          /\ w1 # w2
          /\ Writes(w1) \cap (Reads(w2) \cup Writes(w2)) # {}
    /\ pc' = [w \in Workers |-> "fatal"]
    /\ UNCHANGED <<CollectionsByID, CollectionsByName, ExistingNodes, nextUUID, result, call, ret>>

RaceNext ==
    \/ \E w \in Workers, body \in RaceBodies : CreateBegin(w, body) /\ UNCHANGED <<inventoryVars, serviceVars>>
    \/ \E w \in Workers : CreateValidate(w) /\ UNCHANGED <<inventoryVars, serviceVars>>
    \/ \E w \in Workers : CreateAlias(w) /\ UNCHANGED <<inventoryVars, serviceVars>>
    \/ \E w \in Workers : CreateIndex(w) /\ UNCHANGED <<inventoryVars, serviceVars>>
    \/ \E w \in Workers : CreateClaim(w) /\ UNCHANGED <<inventoryVars, serviceVars>>
    \/ ConcurrentMapAccess /\ UNCHANGED <<inventoryVars, serviceVars>>

SpecRace == Init /\ [][RaceNext]_vars

\* ------------------------------------------------------------------------
\* Properties of the collection manager
\* ------------------------------------------------------------------------

\* The members of a collection, as a set.
Members(collection) == {collection.Nodes[i] : i \in 1 .. Len(collection.Nodes)}

\* The existing collections of type t that list node n.
Holders(t, n) ==
    {id \in DOMAIN CollectionsByID :
        CollectionsByID[id].Type = t /\ n \in Members(CollectionsByID[id])}

\* C1: no node XName is a member of two distinct existing collections of the
\* same constrained type (partition or tenant).
C1_MutualExclusivity ==
    \A t \in {PartitionType, TenantType}, n \in NodeXnames :
        Cardinality(Holders(t, n)) <= 1

\* C2: a createCollection of a partition or tenant collection that lists a
\* node held by an existing collection of the same type returns an error and
\* stores the new collection in neither index.
C2_CreateRejectsHeldMember ==
    [][\A body \in TypeBodies :
          ( /\ CreateCollection(body)
            /\ body.Type \in {PartitionType, TenantType}
            /\ \E n \in Members(body) : Holders(body.Type, n) # {} )
          => ( /\ result'.err # NilError
               /\ CollectionsByID' = CollectionsByID
               /\ CollectionsByName' = CollectionsByName )]_vars

\* The claim map of the constraint instance that NewCollectionManager
\* registers for a type.
PartitionClaims == ExistingNodes["mec-partition"]
TenantClaims == ExistingNodes["mec-tenant"]
ClaimsOf(t) == IF t = PartitionType THEN PartitionClaims ELSE TenantClaims

CreateAccepts(body) ==
    /\ ValidateConstraint(body) = NilError
    /\ body.Name = "" \/ body.Name \notin DOMAIN CollectionsByName

\* C5: after deleteCollection succeeds for a constrained collection, every
\* former member that no other existing collection of that type holds is
\* eligible again: a createCollection of that type listing it succeeds.
C5_DeleteReleasesMembers ==
    [][\A id \in DOMAIN CollectionsByID, t \in {PartitionType, TenantType}, n \in NodeXnames :
          ( /\ DeleteCollectionHandler(String(id))
            /\ CollectionsByID[id].Type = t
            /\ n \in Members(CollectionsByID[id])
            /\ Holders(t, n) \subseteq {id} )
          => CreateAccepts(NodeCollection(NilUUID, "", t, <<n>>))']_vars

\* C6: an updateCollection of an existing constrained collection succeeds for
\* every member list whose nodes are unheld or held only by that collection.
C6_UpdateOwnMembership ==
    [][\A id \in DOMAIN CollectionsByID, body \in TypeBodies :
          ( /\ UpdateCollectionHandler(String(id), body)
            /\ body.Type = CollectionsByID[id].Type
            /\ body.Type \in {PartitionType, TenantType}
            /\ \A n \in Members(body) : Holders(body.Type, n) \subseteq {id} )
          => ( /\ result'.err = NilError
               /\ CollectionsByID'[id].Nodes = body.Nodes )]_vars

\* C7: when two request workers run createCollection concurrently for the
\* same constrained type with member lists that share a node XName, at most
\* one of the two calls succeeds.
C7_AtMostOneConcurrentCreateSucceeds ==
    \A w1, w2 \in Workers :
        ( /\ w1 # w2
          /\ pc[w1] = "done" /\ pc[w2] = "done"
          /\ call[w1].Type = call[w2].Type
          /\ Members(call[w1]) \cap Members(call[w2]) # {} )
        => ~(ret[w1] = NilError /\ ret[w2] = NilError)

\* C8: a createCollection or updateCollection that returns an error leaves
\* the ID index, the name index and every claim map as they were.
C8_RejectedCallChangesNothing ==
    [][(result'.op \in {"create", "update"} /\ result'.err # NilError)
          => UNCHANGED <<CollectionsByID, CollectionsByName, ExistingNodes>>]_vars

\* C8 witness: a createCollection was rejected because its name is in use,
\* after passing the constraint check, with collections and claims stored.
C8_Witness ==
    /\ result.op = "create"
    /\ result.err.msg = AliasMsg
    /\ CollectionsByID # EmptyMap
    /\ PartitionClaims # EmptyMap

\* C9: a deleted collection is reachable through neither index: every
\* identifier getCollection resolves, by ID or by a name the collection has
\* carried, resolves to a collection that still exists.
C9_DeletedIsUnreachable ==
    \A identifier \in Identifiers :
        GetCollection(identifier).exists
        => GetCollection(identifier).collection.ID \in DOMAIN CollectionsByID

\* C10: when updateCollection renames a collection from N1 to an unused N2,
\* getCollection(N2) returns the updated collection, getCollection(N1)
\* returns not found, and a createCollection named N1 is accepted.
C10_RenameReindexes ==
    [][\A id \in DOMAIN CollectionsByID, body \in NameBodies, n1 \in Names \ {""} :
          ( /\ result'.op = "update"
            /\ result'.err = NilError
            /\ CollectionsByID[id].Name = n1
            /\ body.Name \notin {"", n1}
            /\ body.Name \notin DOMAIN CollectionsByName
            /\ UpdateCollectionHandler(String(id), body) )
          => ( /\ GetCollection(body.Name)' =
                    [exists |-> TRUE, collection |-> [body EXCEPT !.ID = id]]
               /\ ~GetCollection(n1).exists'
               /\ CreateAccepts(NodeCollection(NilUUID, n1, JobType, << >>))' )]_vars

\* The existing collections whose current name is the identifier.
NamedBy(identifier) ==
    {id \in DOMAIN CollectionsByID :
        identifier # "" /\ CollectionsByID[id].Name = identifier}

\* C11: getCollection(identifier) returns the existing collection whose ID
\* has the identifier as its string form, else the existing collection whose
\* current non-empty name is the identifier, and not found for every other
\* identifier.
C11_GetByIDOrCurrentName ==
    \A identifier \in Identifiers :
        LET got == GetCollection(identifier)
        IN  IF Parse(identifier) \in DOMAIN CollectionsByID
            THEN got = [exists |-> TRUE, collection |-> CollectionsByID[Parse(identifier)]]
            ELSE IF NamedBy(identifier) # {}
            THEN /\ got.exists
                 /\ \E id \in NamedBy(identifier) : got.collection = CollectionsByID[id]
            ELSE ~got.exists

\* No two existing collections carry the same non-empty name.
UniqueNames ==
    \A id1, id2 \in DOMAIN CollectionsByID :
        ( /\ CollectionsByID[id1].Name # ""
          /\ CollectionsByID[id1].Name = CollectionsByID[id2].Name )
        => id1 = id2

\* C12: no two existing collections have the same non-empty name; a
\* createCollection whose name an existing collection carries is rejected,
\* and an updateCollection to a name that a different existing collection
\* carries is rejected.
C12_NamesUnique ==
    /\ []UniqueNames
    /\ [][\A body \in NameBodies :
            /\ ( CreateCollection(body) /\ NamedBy(body.Name) # {} )
               => ( result'.err # NilError
                    /\ UNCHANGED <<CollectionsByID, CollectionsByName>> )
            /\ \A identifier \in Identifiers :
                 ( /\ UpdateCollectionHandler(identifier, body)
                   /\ GetCollection(identifier).exists
                   /\ NamedBy(body.Name) \ {GetCollection(identifier).collection.ID} # {} )
                 => ( result'.err # NilError
                      /\ UNCHANGED <<CollectionsByID, CollectionsByName>> )]_vars

\* C12 witness: an updateCollection was rejected for its name while two
\* collections with two different names exist.
C12_Witness ==
    /\ result.op = "update"
    /\ result.err.msg = AliasMsg
    /\ \E id1, id2 \in DOMAIN CollectionsByID :
          /\ id1 # id2
          /\ CollectionsByID[id1].Name # ""
          /\ CollectionsByID[id2].Name # ""
          /\ result.id = id1
          /\ result.err.args = <<CollectionsByID[id2].Name>>

\* C13: a successful createCollection stores the collection, whatever ID its
\* body carries, under an ID that no existing collection has; a successful
\* update request whose identifier resolves to an existing collection stores
\* the new record under the ID of that collection and leaves the set of
\* stored IDs as it was.
C13_CreateFreshUpdateSameID ==
    [][\A body \in IDBodies :
          /\ ( CreateCollection(body) /\ result'.err = NilError )
             => \E id \in UUIDs \ DOMAIN CollectionsByID :
                   /\ DOMAIN CollectionsByID' = DOMAIN CollectionsByID \cup {id}
                   /\ CollectionsByID'[id] = [body EXCEPT !.ID = id]
          /\ \A identifier \in Identifiers, id \in DOMAIN CollectionsByID :
                ( /\ UpdateCollectionHandler(identifier, body)
                  /\ result'.status = 200
                  /\ GetCollection(identifier).collection.ID = id )
                => ( /\ CollectionsByID'[id] = [body EXCEPT !.ID = id]
                     /\ DOMAIN CollectionsByID' = DOMAIN CollectionsByID )]_vars

\* C13 witness: the collection with ID 2 was just updated from the body that
\* carries ID 1, the ID of another existing collection, which itself was
\* created from the body that carries ID 2.
C13_Witness ==
    /\ result.op = "update"
    /\ result.status = 200
    /\ result.id = 2
    /\ DOMAIN CollectionsByID = {1, 2}
    /\ CollectionsByID[2].Name = "b"
    /\ CollectionsByID[1].Name = "a"

\* C14: a delete request for a collection ID that does not exist is answered
\* with status 404 and changes neither index and no claim map.
C14_DeleteMissingIsNotFound ==
    [][\A id \in UUIDs :
          ( DeleteCollectionHandler(String(id)) /\ id \notin DOMAIN CollectionsByID )
          => ( /\ result'.status = 404
               /\ UNCHANGED <<CollectionsByID, CollectionsByName, ExistingNodes>> )]_vars

\* ------------------------------------------------------------------------
\* Part 2: the inventory engine (the storage.NodeStorage implementations
\* InMemoryStorage and DuckDBStorage) and the ComputeNode and BMC request
\* handlers (node_handlers.go, bmc_handlers.go) that NodeRoutes mounts on it.
\* ------------------------------------------------------------------------

\* Number of ComputeNode rows, and of BMC rows, that are ever created.
MaxNodes == 2

\* The UUIDs uuid.New() hands out for nodes and for BMCs, each in the order
\* it hands them out. A node ID and a BMC ID are never compared.
NodeUUIDs == 1 .. MaxNodes
BMCUUIDs == 1 .. MaxNodes

\* uuid.Parse on the {nodeID} URL parameter.
ParseNodeID(s) ==
    IF \E id \in NodeUUIDs : String(id) = s
    THEN CHOOSE id \in NodeUUIDs : String(id) = s
    ELSE NilUUID

\* The components of an XName, and the XName strings they print as.
XNameComponents(cabinet, chassis, slot, bmc, node) ==
    [Cabinet |-> cabinet, Chassis |-> chassis, Slot |-> slot,
     BMCPosition |-> bmc, NodePosition |-> node]
NodeXnameString(c) ==
    "x" \o ToString(c.Cabinet) \o "c" \o ToString(c.Chassis) \o "s" \o ToString(c.Slot)
        \o "b" \o ToString(c.BMCPosition) \o "n" \o ToString(c.NodePosition)
BMCXnameString(c) ==
    "x" \o ToString(c.Cabinet) \o "c" \o ToString(c.Chassis) \o "s" \o ToString(c.Slot)
        \o "b" \o ToString(c.BMCPosition)

\* The locations request bodies name: two nodes behind one BMC, and a node
\* whose chassis number is out of range.
Locations ==
    {XNameComponents(1000, 0, 0, 0, 0),
     XNameComponents(1000, 0, 0, 0, 1),
     XNameComponents(1000, 256, 0, 0, 0)}

\* extractXNameComponents: the components a node XName scans to; the zero
\* components when it does not scan.
extractXNameComponents(xname) ==
    IF \E c \in Locations : NodeXnameString(c) = xname
    THEN CHOOSE c \in Locations : NodeXnameString(c) = xname
    ELSE XNameComponents(0, 0, 0, 0, 0)

\* NodeXname.Valid: the pattern (three to five cabinet digits) and the chassis
\* range.
ValidNodeXname(xname) ==
    \E c \in Locations :
        /\ NodeXnameString(c) = xname
        /\ c.Cabinet >= 100 /\ c.Cabinet <= 99999
        /\ c.Chassis < 256

\* isValidBMCXName
IsValidBMCXName(xname) ==
    \E c \in Locations :
        /\ BMCXnameString(c) = xname
        /\ c.Cabinet >= 100 /\ c.Cabinet <= 99999
        /\ c.Chassis < 256 /\ c.Slot < 256 /\ c.BMCPosition < 256

\* The XNames of request bodies; "" is the absent XName.
XNameA == NodeXnameString(XNameComponents(1000, 0, 0, 0, 0))
XNameB == NodeXnameString(XNameComponents(1000, 0, 0, 0, 1))
XNameBad == NodeXnameString(XNameComponents(1000, 256, 0, 0, 0))
BMCXNameA == BMCXnameString(XNameComponents(1000, 0, 0, 0, 0))

\* The BMC fields the handlers and the engine read; NoBMC is the nil pointer.
BMC(id, xname, mac) == [ID |-> id, XName |-> xname, MACAddress |-> mac]
NoBMC == [ID |-> NilUUID, XName |-> "nil", MACAddress |-> "nil"]

\* A NetworkInterface: the addresses the searches are about.
NetworkInterface(ipv4, ipv6) == [IPv4Address |-> ipv4, IPv6Address |-> ipv6]

\* The ComputeNode fields the handlers and the engine read. A node built from
\* these four has the zero value in the fields Architecture, BootMac and
\* NetworkInterfaces.
ComputeNode(id, hostname, xname, bmc) ==
    [ID |-> id, Hostname |-> hostname, XName |-> xname, BMC |-> bmc,
     Architecture |-> "", BootMac |-> "", NetworkInterfaces |-> << >>]
NoComputeNode == ComputeNode(NilUUID, "", "", NoBMC)

\* json.Marshal of a BMC and of a ComputeNode: the document stored in the
\* data column. UUIDs are written in their string form; a nil BMC, an empty
\* BMC XName, an empty boot MAC, an empty address and an empty interface list
\* are omitted (omitempty); hostname, architecture and xname are always
\* written.
OmitEmpty(s) == IF s = "" THEN "omitted" ELSE s
MarshalNetworkInterface(iface) ==
    [ipv4_address |-> OmitEmpty(iface.IPv4Address),
     ipv6_address |-> OmitEmpty(iface.IPv6Address)]
OmittedBMC == [id |-> "omitted", xname |-> "omitted", mac_address |-> "omitted"]
MarshalBMC(bmc) ==
    [id |-> String(bmc.ID), xname |-> IF bmc.XName = "" THEN "omitted" ELSE bmc.XName,
     mac_address |-> bmc.MACAddress]
MarshalNode(node) ==
    [id |-> String(node.ID), hostname |-> node.Hostname, xname |-> node.XName,
     bmc |-> IF node.BMC = NoBMC THEN OmittedBMC ELSE MarshalBMC(node.BMC),
     architecture |-> node.Architecture,
     boot_mac |-> OmitEmpty(node.BootMac),
     network_interfaces |->
         [i \in DOMAIN node.NetworkInterfaces |->
             MarshalNetworkInterface(node.NetworkInterfaces[i])]]

\* uuid.Parse inside json.Unmarshal.
ParseUUID(s) ==
    IF \E id \in NodeUUIDs \cup {NilUUID} : String(id) = s
    THEN CHOOSE id \in NodeUUIDs \cup {NilUUID} : String(id) = s
    ELSE NilUUID

\* json.Unmarshal of a stored document.
UnmarshalBMC(data) ==
    BMC(ParseUUID(data.id), IF data.xname = "omitted" THEN "" ELSE data.xname,
        data.mac_address)
EmptyIfOmitted(s) == IF s = "omitted" THEN "" ELSE s
UnmarshalNetworkInterface(data) ==
    NetworkInterface(EmptyIfOmitted(data.ipv4_address), EmptyIfOmitted(data.ipv6_address))
UnmarshalNode(data) ==
    [ComputeNode(ParseUUID(data.id), data.hostname, data.xname,
                 IF data.bmc = OmittedBMC THEN NoBMC ELSE UnmarshalBMC(data.bmc))
        EXCEPT !.Architecture = data.architecture,
               !.BootMac = EmptyIfOmitted(data.boot_mac),
               !.NetworkInterfaces =
                   [i \in DOMAIN data.network_interfaces |->
                       UnmarshalNetworkInterface(data.network_interfaces[i])]]

\* The errors of the engines.
NodeNotFound == Errorf("ComputeNode not found", << >>)
BMCNotFound == Errorf("BMC not found", << >>)
ErrNoRows == Errorf("sql: no rows in result set", << >>)
UniqueViolation(column, value) ==
    Errorf("Constraint Error: Duplicate key \"%s: %s\" violates unique constraint", <<column, value>>)

\* What an engine call returns: its error and the table it leaves behind.
Returns(err, table) == [err |-> err, table |-> table]

\* InMemoryStorage: the node table is a Go map from ID to ComputeNode.
InMemorySaveComputeNode(table, nodeID, node) ==
    Returns(NilError, Put(table, nodeID, node))

InMemoryGetComputeNode(table, nodeID) ==
    IF nodeID \in DOMAIN table
    THEN [node |-> table[nodeID], err |-> NilError]
    ELSE [node |-> NoComputeNode, err |-> NodeNotFound]

InMemoryUpdateComputeNode(table, nodeID, node) ==
    IF nodeID \notin DOMAIN table
    THEN Returns(NodeNotFound, table)
    ELSE Returns(NilError, Put(table, nodeID, node))

InMemoryDeleteComputeNode(table, nodeID) ==
    IF nodeID \notin DOMAIN table
    THEN Returns(NodeNotFound, table)
    ELSE Returns(NilError, Delete(table, nodeID))

\* The nodes LookupComputeNodeByXName may return (map iteration order decides
\* between several); none means the not-found error.
InMemoryLookupComputeNodeByXName(table, xname) ==
    {table[id] : id \in {i \in DOMAIN table : table[i].XName = xname}}

\* DuckDBStorage: compute_nodes is a set of rows (id, xname, data) with
\* id UUID PRIMARY KEY and xname TEXT UNIQUE.
Row(id, xname, data) == [id |-> id, xname |-> xname, data |-> data]

\* INSERT INTO compute_nodes (id, xname, data) ... ON CONFLICT(id) DO UPDATE
\* SET data = excluded.data: a row with the ID keeps its xname column and
\* gets the new document; without one the row is inserted, unless its xname
\* is the xname of a stored row.
DuckDBSaveComputeNode(rows, nodeID, node) ==
    LET data == MarshalNode(node)
        conflict == {r \in rows : r.id = nodeID}
    IN  IF conflict # {}
        THEN Returns(NilError, (rows \ conflict) \cup {Row(r.id, r.xname, data) : r \in conflict})
        ELSE IF \E r \in rows : r.xname = node.XName
        THEN Returns(UniqueViolation("xname", node.XName), rows)
        ELSE Returns(NilError, rows \cup {Row(nodeID, node.XName, data)})

\* SELECT data FROM compute_nodes WHERE id = ?
DuckDBGetComputeNode(rows, nodeID) ==
    IF \E r \in rows : r.id = nodeID
    THEN [node |-> UnmarshalNode((CHOOSE r \in rows : r.id = nodeID).data), err |-> NilError]
    ELSE [node |-> NoComputeNode, err |-> ErrNoRows]

DuckDBUpdateComputeNode(rows, nodeID, node) ==
    DuckDBSaveComputeNode(rows, nodeID, node)

\* DELETE FROM compute_nodes WHERE id = ?
DuckDBDeleteComputeNode(rows, nodeID) ==
    Returns(NilError, {r \in rows : r.id # nodeID})

\* SELECT data FROM compute_nodes WHERE json_extract(data, '$.xname') = ?
DuckDBLookupComputeNodeByXName(rows, xname) ==
    {UnmarshalNode(r.data) : r \in {q \in rows : q.data.xname = xname}}

\* The node table of the engine in use, and the calls through the
\* storage.NodeStorage interface.
NodeTable == IF engine = "memory" THEN inMemoryNodes ELSE compute_nodes

StoreNodeTable(table) ==
    IF engine = "memory"
    THEN inMemoryNodes' = table /\ UNCHANGED compute_nodes
    ELSE compute_nodes' = table /\ UNCHANGED inMemoryNodes

StorageSaveComputeNode(nodeID, node) ==
    IF engine = "memory"
    THEN InMemorySaveComputeNode(inMemoryNodes, nodeID, node)
    ELSE DuckDBSaveComputeNode(compute_nodes, nodeID, node)

StorageGetComputeNode(nodeID) ==
    IF engine = "memory"
    THEN InMemoryGetComputeNode(inMemoryNodes, nodeID)
    ELSE DuckDBGetComputeNode(compute_nodes, nodeID)

StorageUpdateComputeNode(nodeID, node) ==
    IF engine = "memory"
    THEN InMemoryUpdateComputeNode(inMemoryNodes, nodeID, node)
    ELSE DuckDBUpdateComputeNode(compute_nodes, nodeID, node)

StorageDeleteComputeNode(nodeID) ==
    IF engine = "memory"
    THEN InMemoryDeleteComputeNode(inMemoryNodes, nodeID)
    ELSE DuckDBDeleteComputeNode(compute_nodes, nodeID)

StorageLookupComputeNodeByXName(xname) ==
    IF engine = "memory"
    THEN InMemoryLookupComputeNodeByXName(inMemoryNodes, xname)
    ELSE DuckDBLookupComputeNodeByXName(compute_nodes, xname)

\* The IDs of the stored node rows, and the stored nodes as getNode returns
\* them.
StoredNodeIDs ==
    IF engine = "memory" THEN DOMAIN inMemoryNodes ELSE {r.id : r \in compute_nodes}
StoredNode(nodeID) == StorageGetComputeNode(nodeID).node

\* ------------------------------------------------------------------------
\* The engine called directly.
\* ------------------------------------------------------------------------

\* The IDs and nodes of direct engine calls.
EngineIDs == 1 .. MaxNodes
EngineNodes ==
    {ComputeNode(NilUUID, hostname, xname, NoBMC) :
        hostname \in {"h1", "h2"}, xname \in {"", XNameA}}

SaveComputeNode(nodeID, node) ==
    LET r == StorageSaveComputeNode(nodeID, [node EXCEPT !.ID = nodeID])
    IN  /\ StoreNodeTable(r.table)
        /\ result' = Result("SaveComputeNode", 0, r.err, nodeID)
        /\ UNCHANGED <<managerVars, nextUUID, workerVars, serviceVars, engine, bmcEntries, bmcs, nextBMCUUID>>

UpdateComputeNode(nodeID, node) ==
    LET r == StorageUpdateComputeNode(nodeID, [node EXCEPT !.ID = nodeID])
    IN  /\ StoreNodeTable(r.table)
        /\ result' = Result("UpdateComputeNode", 0, r.err, nodeID)
        /\ UNCHANGED <<managerVars, nextUUID, workerVars, serviceVars, engine, bmcEntries, bmcs, nextBMCUUID>>

DeleteComputeNode(nodeID) ==
    LET r == StorageDeleteComputeNode(nodeID)
    IN  /\ StoreNodeTable(r.table)
        /\ result' = Result("DeleteComputeNode", 0, r.err, nodeID)
        /\ UNCHANGED <<managerVars, nextUUID, workerVars, serviceVars, engine, bmcEntries, bmcs, nextBMCUUID>>

EngineInit == \E e \in StorageEngines : InitWith(e)

EngineNext ==
    \/ \E nodeID \in EngineIDs, node \in EngineNodes : SaveComputeNode(nodeID, node)
    \/ \E nodeID \in EngineIDs, node \in EngineNodes : UpdateComputeNode(nodeID, node)
    \/ \E nodeID \in EngineIDs : DeleteComputeNode(nodeID)

SpecEngine == EngineInit /\ [][EngineNext]_vars

\* ------------------------------------------------------------------------
\* The BMC table of the two engines.
\* ------------------------------------------------------------------------

InMemorySaveBMC(table, bmcID, bmc) ==
    Returns(NilError, Put(table, bmcID, bmc))

\* The BMCs LookupBMCByXName and LookupBMCByMACAddress may return.
InMemoryLookupBMCByXName(table, xname) ==
    {table[id] : id \in {i \in DOMAIN table : table[i].XName = xname}}

InMemoryLookupBMCByMACAddress(table, mac) ==
    {table[id] : id \in {i \in DOMAIN table : table[i].MACAddress = mac}}

\* INSERT INTO bmcs (id, data) ... ON CONFLICT(id) DO UPDATE SET data =
\* excluded.data: the xname column of every row stays NULL.
DuckDBSaveBMC(rows, bmcID, bmc) ==
    Returns(NilError,
            {r \in rows : r.id # bmcID} \cup {Row(bmcID, "NULL", MarshalBMC(bmc))})

\* SELECT data FROM bmcs WHERE json_extract(data, '$.xname') = ?
DuckDBLookupBMCByXName(rows, xname) ==
    {UnmarshalBMC(r.data) : r \in {q \in rows : q.data.xname = xname}}

\* SELECT data FROM bmcs WHERE json_extract(data, '$.mac_address') = ?
DuckDBLookupBMCByMACAddress(rows, mac) ==
    {UnmarshalBMC(r.data) : r \in {q \in rows : q.data.mac_address = mac}}

BMCTable == IF engine = "memory" THEN bmcEntries ELSE bmcs

StoreBMCTable(table) ==
    IF engine = "memory"
    THEN bmcEntries' = table /\ UNCHANGED bmcs
    ELSE bmcs' = table /\ UNCHANGED bmcEntries

StorageSaveBMC(bmcID, bmc) ==
    IF engine = "memory"
    THEN InMemorySaveBMC(bmcEntries, bmcID, bmc)
    ELSE DuckDBSaveBMC(bmcs, bmcID, bmc)

StorageLookupBMCByXName(xname) ==
    IF engine = "memory"
    THEN InMemoryLookupBMCByXName(bmcEntries, xname)
    ELSE DuckDBLookupBMCByXName(bmcs, xname)

StorageLookupBMCByMACAddress(mac) ==
    IF engine = "memory"
    THEN InMemoryLookupBMCByMACAddress(bmcEntries, mac)
    ELSE DuckDBLookupBMCByMACAddress(bmcs, mac)

\* ------------------------------------------------------------------------
\* The ComputeNode and BMC request handlers.
\* ------------------------------------------------------------------------

\* Decoded request bodies. A body names no BMC or one BMC without an ID.
BMCXNameBad == BMCXnameString(XNameComponents(1000, 256, 0, 0, 0))
BodyBMC == BMC(NilUUID, BMCXNameA, "m1")
PostNodeBodies ==
    {ComputeNode(NilUUID, "h1", xname, NoBMC) : xname \in {"", XNameA, XNameB, XNameBad}}
UpdateNodeBodies ==
    {ComputeNode(NilUUID, "h1", xname, BodyBMC) : xname \in {"", XNameA, XNameB}}
    \cup {ComputeNode(NilUUID, "h1", XNameA, NoBMC)}
CreateNodeBodies ==
    {ComputeNode(NilUUID, "h1", xname, bmc) :
        xname \in {XNameA, XNameB}, bmc \in {NoBMC, BodyBMC}}
RenameNodeBodies ==
    {ComputeNode(NilUUID, "h1", xname, BodyBMC) : xname \in {XNameA, XNameB}}
BMCBodies ==
    {BMC(NilUUID, xname, "m1") : xname \in {BMCXNameA, BMCXNameBad}}

\* The {nodeID} URL parameter.
NodeIDParams == {String(id) : id \in NodeUUIDs} \cup {"malformed"}

\* The XName of the BMC of a node, as postNode prints it.
InferredBMCXName(xname) == BMCXnameString(extractXNameComponents(xname))

\* The BMC that the BMC branches of postNode leave in newNode.BMC, and
\* whether they save it: a BMC of the body takes the ID of a stored BMC with
\* its XName, else with its MAC address, else a new ID under which it is
\* saved; a node with an XName and no BMC gets a new BMC with the inferred
\* XName, which is saved.
PostNodeBMCs(newNode) ==
    IF newNode.BMC # NoBMC
    THEN IF StorageLookupBMCByXName(newNode.BMC.XName) # {}
         THEN {[bmc |-> [newNode.BMC EXCEPT !.ID = existingBMC.ID], save |-> FALSE] :
                  existingBMC \in StorageLookupBMCByXName(newNode.BMC.XName)}
         ELSE IF StorageLookupBMCByMACAddress(newNode.BMC.MACAddress) # {}
         THEN {[bmc |-> [newNode.BMC EXCEPT !.ID = existingBMC.ID], save |-> FALSE] :
                  existingBMC \in StorageLookupBMCByMACAddress(newNode.BMC.MACAddress)}
         ELSE {[bmc |-> [newNode.BMC EXCEPT !.ID = nextBMCUUID], save |-> TRUE]}
    ELSE IF newNode.XName # ""
    THEN {[bmc |-> BMC(nextBMCUUID, InferredBMCXName(newNode.XName), ""), save |-> TRUE]}
    ELSE {[bmc |-> NoBMC, save |-> FALSE]}

\* The error of postNode for an XName that is stored already.
DuplicateXName == Errorf("Compute Node with the same XName already exists", << >>)

\* A request that touches no table.
Answer(op, status, err, id) ==
    /\ result' = Result(op, status, err, id)
    /\ UNCHANGED <<managerVars, nextUUID, workerVars, inventoryVars, serviceVars>>

\* The BMC part and the node part of postNode: the BMC is saved if it is new,
\* the node is saved under a new ID. A UUID that is drawn and stored nowhere
\* is not counted as drawn.
PostNodeSave(body) ==
    \E b \in PostNodeBMCs(body) :
        LET newNode == [body EXCEPT !.BMC = b.bmc, !.ID = nextUUID]
            saved == StorageSaveComputeNode(nextUUID, newNode)
        IN  /\ IF b.save
               THEN /\ StoreBMCTable(StorageSaveBMC(b.bmc.ID, b.bmc).table)
                    /\ nextBMCUUID' = nextBMCUUID + 1
               ELSE UNCHANGED <<bmcEntries, bmcs, nextBMCUUID>>
            /\ StoreNodeTable(saved.table)
            /\ nextUUID' = IF saved.err = NilError THEN nextUUID + 1 ELSE nextUUID
            /\ result' = IF saved.err # NilError
                         THEN Result("postNode", 500, saved.err, nextUUID)
                         ELSE Result("postNode", 201, NilError, nextUUID)
            /\ UNCHANGED <<managerVars, workerVars, serviceVars, engine>>

\* Mutant: postNode without the lookup of the XName.
PostNodeNoLookup(body) ==
    /\ nextUUID \in NodeUUIDs
    /\ nextBMCUUID \in BMCUUIDs
    /\ IF body.XName # "" /\ ~ValidNodeXname(body.XName)
       THEN Answer("postNode", 400, Errorf("Invalid XName %s", <<body.XName>>), NilUUID)
       ELSE IF body.BMC # NoBMC /\ body.BMC.XName # "" /\ ~IsValidBMCXName(body.BMC.XName)
       THEN Answer("postNode", 400, Errorf("invalid BMC XName", << >>), NilUUID)
       ELSE PostNodeSave(body)

\* The postNode handler.
PostNode(body) ==
    /\ nextUUID \in NodeUUIDs
    /\ nextBMCUUID \in BMCUUIDs
    /\ IF body.XName # "" /\ ~ValidNodeXname(body.XName)
       THEN Answer("postNode", 400, Errorf("Invalid XName %s", <<body.XName>>), NilUUID)
       ELSE IF body.XName # "" /\ StorageLookupComputeNodeByXName(body.XName) # {}
       THEN Answer("postNode", 400, DuplicateXName, NilUUID)
       ELSE IF body.BMC # NoBMC /\ body.BMC.XName # "" /\ ~IsValidBMCXName(body.BMC.XName)
       THEN Answer("postNode", 400, Errorf("invalid BMC XName", << >>), NilUUID)
       ELSE PostNodeSave(body)

\* The updateNode handler. After the engine call it logs fields of the BMC
\* of the body; without a BMC that is a nil dereference, which
\* middleware.Recoverer answers with 500.
UpdateNode(param, body) ==
    LET nodeID == ParseNodeID(param)
        updated == StorageUpdateComputeNode(nodeID, body)
    IN  IF nodeID = NilUUID
        THEN Answer("updateNode", 400, Errorf("malformed node ID", << >>), NilUUID)
        ELSE IF ~ValidNodeXname(body.XName)
        THEN Answer("updateNode", 400, Errorf("invalid XName %s", <<body.XName>>), nodeID)
        ELSE /\ StoreNodeTable(updated.table)
             /\ result' = IF updated.err # NilError
                          THEN Result("updateNode", 404, updated.err, nodeID)
                          ELSE IF body.BMC = NoBMC
                          THEN Result("updateNode", 500,
                                      Errorf("invalid memory address or nil pointer dereference", << >>),
                                      nodeID)
                          ELSE Result("updateNode", 200, NilError, nodeID)
             /\ UNCHANGED <<managerVars, nextUUID, workerVars, serviceVars, engine, bmcEntries, bmcs, nextBMCUUID>>

\* The deleteNode handler; it writes nothing when the engine returns nil.
DeleteNode(param) ==
    LET nodeID == ParseNodeID(param)
        deleted == StorageDeleteComputeNode(nodeID)
    IN  IF nodeID = NilUUID
        THEN Answer("deleteNode", 400, Errorf("malformed node ID", << >>), NilUUID)
        ELSE /\ StoreNodeTable(deleted.table)
             /\ result' = IF deleted.err # NilError
                          THEN Result("deleteNode", 404, deleted.err, nodeID)
                          ELSE Result("deleteNode", 200, NilError, nodeID)
             /\ UNCHANGED <<managerVars, nextUUID, workerVars, serviceVars, engine, bmcEntries, bmcs, nextBMCUUID>>

\* The postBMC handler. It answers an invalid XName with 400 and goes on: the
\* BMC is saved all the same unless its XName is stored already.
PostBMC(body) ==
    /\ nextBMCUUID \in BMCUUIDs
    /\ IF body.XName # "" /\ StorageLookupBMCByXName(body.XName) # {}
       THEN Answer("postBMC",
                   IF IsValidBMCXName(body.XName) THEN 409 ELSE 400,
                   Errorf("XName already exists", << >>), NilUUID)
       ELSE /\ StoreBMCTable(StorageSaveBMC(nextBMCUUID, [body EXCEPT !.ID = nextBMCUUID]).table)
            /\ nextBMCUUID' = nextBMCUUID + 1
            /\ result' = IF body.XName # "" /\ ~IsValidBMCXName(body.XName)
                         THEN Result("postBMC", 400, Errorf("invalid XName", << >>), nextBMCUUID)
                         ELSE Result("postBMC", 200, NilError, nextBMCUUID)
            /\ UNCHANGED <<managerVars, nextUUID, workerVars, serviceVars, engine, inMemoryNodes, compute_nodes>>

\* Node requests: create, update and delete.
NodesNext ==
    \/ \E body \in PostNodeBodies : PostNode(body)
    \/ \E param \in NodeIDParams, body \in UpdateNodeBodies : UpdateNode(param, body)
    \/ \E param \in NodeIDParams : DeleteNode(param)

SpecNodes == EngineInit /\ [][NodesNext]_vars

\* Creation requests for nodes and BMCs, and node updates.
CreateNext ==
    \/ \E body \in CreateNodeBodies : PostNode(body)
    \/ \E body \in BMCBodies : PostBMC(body)
    \/ \E param \in NodeIDParams, body \in RenameNodeBodies : UpdateNode(param, body)

SpecCreate == EngineInit /\ [][CreateNext]_vars

\* ------------------------------------------------------------------------
\* Properties of the inventory engine
\* ------------------------------------------------------------------------

\* The errors that mean there is no row with the ID.
NotFoundErrors == {NodeNotFound, BMCNotFound, ErrNoRows}

\* C15: updateNode(id, node) for an id that is not stored returns NotFound
\* and creates no row: the set of stored node IDs is the same after the call.
C15_UpdateMissingIsNotFound ==
    [][\A nodeID \in EngineIDs, node \in EngineNodes :
          ( UpdateComputeNode(nodeID, node) /\ nodeID \notin StoredNodeIDs )
          => ( /\ result'.err \in NotFoundErrors
               /\ StoredNodeIDs' = StoredNodeIDs )]_vars

\* C16: deleteNode(id) for an id that is not stored returns NotFound and
\* leaves the table unchanged; for a stored id it removes exactly that row,
\* and a following getNode(id) returns NotFound.
C16_DeleteNode ==
    [][\A nodeID \in EngineIDs :
          DeleteComputeNode(nodeID)
          => IF nodeID \notin StoredNodeIDs
             THEN /\ result'.err \in NotFoundErrors
                  /\ NodeTable' = NodeTable
             ELSE /\ result'.err = NilError
                  /\ StoredNodeIDs' = StoredNodeIDs \ {nodeID}
                  /\ \A other \in StoredNodeIDs \ {nodeID} :
                        StoredNode(other)' = StoredNode(other)
                  /\ StorageGetComputeNode(nodeID)'.err \in NotFoundErrors]_vars

\* The number of rows of the node table.
RowCount ==
    IF engine = "memory" THEN Cardinality(DOMAIN inMemoryNodes) ELSE Cardinality(compute_nodes)

\* C17: saveNode is an idempotent upsert by ID: there is at most one row per
\* ID; after saveNode(id, payload), saving the same (id, payload) again leaves
\* the table as it is, and getNode(id) returns the payload.
C17_SaveIsIdempotentUpsert ==
    /\ [](RowCount = Cardinality(StoredNodeIDs))
    /\ [][\A nodeID \in EngineIDs, node \in EngineNodes :
            SaveComputeNode(nodeID, node)
            => ( /\ StorageSaveComputeNode(nodeID, [node EXCEPT !.ID = nodeID])'.table = NodeTable'
                 /\ StorageGetComputeNode(nodeID)' =
                        [node |-> [node EXCEPT !.ID = nodeID], err |-> NilError] )]_vars

\* C18: saveNode with an ID that is not yet stored succeeds and stores the
\* row, whatever XNames the stored rows have, also when the new node and a
\* stored node both have no XName.
C18_SaveNewIDSucceeds ==
    [][\A nodeID \in EngineIDs, node \in EngineNodes :
          ( SaveComputeNode(nodeID, node) /\ nodeID \notin StoredNodeIDs )
          => ( /\ result'.err = NilError
               /\ StoredNodeIDs' = StoredNodeIDs \cup {nodeID}
               /\ StoredNode(nodeID)' = [node EXCEPT !.ID = nodeID] )]_vars

\* ------------------------------------------------------------------------
\* Properties of the node and BMC request handlers
\* ------------------------------------------------------------------------

\* C19: after any sequence of node create, update and delete requests, no
\* two stored nodes have the same non-empty XName.
C19_StoredXNamesUnique ==
    \A id1, id2 \in StoredNodeIDs :
        ( /\ StoredNode(id1).XName # ""
          /\ StoredNode(id1).XName = StoredNode(id2).XName )
        => id1 = id2

\* The stored BMCs as getBMC returns them.
StoredBMCs ==
    IF engine = "memory"
    THEN {bmcEntries[id] : id \in DOMAIN bmcEntries}
    ELSE {UnmarshalBMC(r.data) : r \in bmcs}

C21_StoredBMCXNamesValid ==
    \A bmc \in StoredBMCs : bmc.XName # "" => IsValidBMCXName(bmc.XName)

\* C22: registering a node never creates a second BMC for an already known
\* BMC: after any sequence of node registrations no two stored BMCs share a
\* non-empty XName.
C22_StoredBMCXNamesUnique ==
    \A bmc1, bmc2 \in StoredBMCs :
        ( /\ bmc1.XName # ""
          /\ bmc1.XName = bmc2.XName )
        => bmc1.ID = bmc2.ID

\* ------------------------------------------------------------------------
\* Node search.
\* ------------------------------------------------------------------------

\* storage.NodeSearchOptions, and the options no With... function has touched.
NodeSearchOptions(xname, hostname, arch, bootMAC, bmcMAC) ==
    [XName |-> xname, Hostname |-> hostname, Arch |-> arch, BootMAC |-> bootMAC,
     BMCMAC |-> bmcMAC, MissingXName |-> FALSE, MissingHostname |-> FALSE,
     MissingArch |-> FALSE, MissingBootMAC |-> FALSE, MissingBMCMAC |-> FALSE,
     MissingIPV4 |-> FALSE, MissingIPV6 |-> FALSE]
NoSearchOptions == NodeSearchOptions("", "", "", "", "")

\* json_extract(data, path): the JSON text of the value at the path (a string
\* value in its double quotes), SQL NULL when the document has no such key.
JSONNull == "NULL"
JSONText(s) == "\"" \o s \o "\""
JSONExtract(data, path) ==
    LET value ==
            IF path[1] \notin DOMAIN data THEN "omitted"
            ELSE IF Len(path) = 1 THEN data[path[1]]
            ELSE IF path[2] \notin DOMAIN data[path[1]] THEN "omitted"
            ELSE data[path[1]][path[2]]
    IN  IF value = "omitted" THEN JSONNull ELSE JSONText(value)

\* The WHERE clause SearchComputeNodes builds: "json_extract(...)::text = ?"
\* with the argument in double quotes for each non-empty option, "json_extract
\* (...) IS NULL" for each Missing option, joined by AND. A comparison with
\* NULL is not true.
DuckDBSearchWhere(data, options) ==
    /\ options.XName # "" => JSONExtract(data, <<"xname">>) = JSONText(options.XName)
    /\ options.Hostname # "" => JSONExtract(data, <<"hostname">>) = JSONText(options.Hostname)
    /\ options.Arch # "" => JSONExtract(data, <<"arch">>) = JSONText(options.Arch)
    /\ options.BootMAC # "" => JSONExtract(data, <<"boot_mac">>) = JSONText(options.BootMAC)
    /\ options.BMCMAC # "" =>
           JSONExtract(data, <<"bmc", "mac_address">>) = JSONText(options.BMCMAC)
    /\ options.MissingXName => JSONExtract(data, <<"xname">>) = JSONNull
    /\ options.MissingHostname => JSONExtract(data, <<"hostname">>) = JSONNull
    /\ options.MissingArch => JSONExtract(data, <<"arch">>) = JSONNull
    /\ options.MissingBootMAC => JSONExtract(data, <<"boot_mac">>) = JSONNull
    /\ options.MissingBMCMAC => JSONExtract(data, <<"bmc", "mac_address">>) = JSONNull
    /\ options.MissingIPV4 => JSONExtract(data, <<"boot_ipv4_address">>) = JSONNull
    /\ options.MissingIPV6 => JSONExtract(data, <<"boot_ipv4_address">>) = JSONNull

\* DuckDBStorage.SearchComputeNodes: the documents of the selected rows,
\* unmarshalled.
DuckDBSearchComputeNodes(rows, options) ==
    {UnmarshalNode(r.data) : r \in {row \in rows : DuckDBSearchWhere(row.data, options)}}

\* InMemoryStorage.SearchComputeNodes.
InMemorySearchComputeNodes(table, xname, hostname, arch, bootMAC, bmcMAC) ==
    {table[id] : id \in {i \in DOMAIN table :
        /\ xname = "" \/ table[i].XName = xname
        /\ hostname = "" \/ table[i].Hostname = hostname
        /\ arch = "" \/ table[i].Architecture = arch
        /\ bootMAC = "" \/ table[i].BootMac = bootMAC}}

StorageSearchComputeNodes(options) ==
    IF engine = "memory"
    THEN InMemorySearchComputeNodes(inMemoryNodes, options.XName, options.Hostname,
                                    options.Arch, options.BootMAC, options.BMCMAC)
    ELSE DuckDBSearchComputeNodes(compute_nodes, options)

\* The query parameters of a search request; "" is the absent parameter.
SearchQuery(xname, hostname, arch, boot_mac, bmc_mac, missingIPV4, missingIPV6) ==
    [xname |-> xname, hostname |-> hostname, arch |-> arch, boot_mac |-> boot_mac,
     bmc_mac |-> bmc_mac, missingIPV4 |-> missingIPV4, missingIPV6 |-> missingIPV6]

\* The options searchNodes collects from the query: both Missing options are
\* read from the parameter missingIPV4.
SearchOptionsOf(query) ==
    [NodeSearchOptions(query.xname, query.hostname, query.arch, query.boot_mac,
                       query.bmc_mac)
        EXCEPT !.MissingIPV4 = (query.missingIPV4 = "true"),
               !.MissingIPV6 = (query.missingIPV4 = "true")]

\* The searchNodes handler.
SearchNodes(query) ==
    /\ foundNodes' = StorageSearchComputeNodes(SearchOptionsOf(query))
    /\ result' = Result("searchNodes", 200, NilError, NilUUID)
    /\ UNCHANGED <<managerVars, nextUUID, workerVars, inventoryVars, snapshotVars, shutdownVars,
                   peripheralVars>>

\* The nodes the search claims are checked on: one with every field and an
\* IPv4 address, one with an IPv6 address and nothing else, one without
\* interfaces.
SearchableNodes ==
    {[ComputeNode(NilUUID, "h1", XNameA, BMC(1, BMCXNameA, "m1"))
         EXCEPT !.Architecture = "x86_64", !.BootMac = "b1",
                !.NetworkInterfaces = <<NetworkInterface("10.0.0.1", "")>>],
     [ComputeNode(NilUUID, "h2", "", NoBMC)
         EXCEPT !.NetworkInterfaces = <<NetworkInterface("", "fe80::1")>>],
     [ComputeNode(NilUUID, "h1", XNameB, BMC(2, "", "m2"))
         EXCEPT !.Architecture = "aarch64"]}

\* The search requests: no parameter, each parameter alone, and two together.
SearchQueries ==
    {SearchQuery("", "", "", "", "", "", ""),
     SearchQuery(XNameA, "", "", "", "", "", ""),
     SearchQuery("", "h1", "", "", "", "", ""),
     SearchQuery("", "", "x86_64", "", "", "", ""),
     SearchQuery("", "", "", "b1", "", "", ""),
     SearchQuery("", "", "", "", "m2", "", ""),
     SearchQuery(XNameB, "h1", "", "", "", "", ""),
     SearchQuery("", "", "", "", "", "true", ""),
     SearchQuery("", "", "", "", "", "", "true")}

SearchNext ==
    \/ \E nodeID \in EngineIDs, node \in SearchableNodes : SaveComputeNode(nodeID, node)
    \/ \E query \in SearchQueries : SearchNodes(query)

SpecSearch == EngineInit /\ [][SearchNext]_vars

\* The stored nodes as getNode returns them.
StoredNodes == {StoredNode(id) : id \in StoredNodeIDs}

\* The stored nodes that satisfy every equality filter of a query.
SatisfiesFilters(node, query) ==
    /\ query.xname # "" => node.XName = query.xname
    /\ query.hostname # "" => node.Hostname = query.hostname
    /\ query.arch # "" => node.Architecture = query.arch
    /\ query.boot_mac # "" => node.BootMac = query.boot_mac
    /\ query.bmc_mac # "" => (node.BMC # NoBMC /\ node.BMC.MACAddress = query.bmc_mac)

\* Queries with equality filters only.
EqualityQueries == {q \in SearchQueries : q.missingIPV4 = "" /\ q.missingIPV6 = ""}

\* C23: searchNodes returns exactly the stored nodes that satisfy every
\* supplied equality filter (xname, hostname, architecture, boot MAC, BMC
\* MAC); with no filter it returns every stored node.
C23_SearchReturnsMatches ==
    [][\A query \in EqualityQueries :
          SearchNodes(query)
          => foundNodes' = {node \in StoredNodes : SatisfiesFilters(node, query)}]_vars

\* Whether a stored node lacks the field a Missing option is about.
LacksField(node, option) ==
    CASE option = "MissingXName" -> node.XName = ""
      [] option = "MissingHostname" -> node.Hostname = ""
      [] option = "MissingArch" -> node.Architecture = ""
      [] option = "MissingBootMAC" -> node.BootMac = ""
      [] option = "MissingBMCMAC" -> node.BMC = NoBMC \/ node.BMC.MACAddress = ""
      [] option = "MissingIPV4" ->
             \A i \in DOMAIN node.NetworkInterfaces : node.NetworkInterfaces[i].IPv4Address = ""
      [] option = "MissingIPV6" ->
             \A i \in DOMAIN node.NetworkInterfaces : node.NetworkInterfaces[i].IPv6Address = ""

\* The Missing options, as the With... functions set them.
MissingOptions ==
    {"MissingXName", "MissingHostname", "MissingArch", "MissingBootMAC",
     "MissingBMCMAC", "MissingIPV4", "MissingIPV6"}
WithMissing(option) == [NoSearchOptions EXCEPT ![option] = TRUE]

\* Queries without equality filters.
MissingQueries ==
    {q \in SearchQueries : SearchOptionsOf(q) = [SearchOptionsOf(q) EXCEPT
        !.XName = "", !.Hostname = "", !.Arch = "", !.BootMAC = "", !.BMCMAC = ""]}

\* C24: each 'field is absent' search filter selects exactly the stored nodes
\* that lack that field; the missing-IPv6 filter selects the nodes without an
\* IPv6 address, whether or not they have an IPv4 address, and is applied only
\* when the request asks for it.
C24_MissingFiltersSelectLacking ==
    /\ [](engine = "duckdb" =>
            \A option \in MissingOptions :
                DuckDBSearchComputeNodes(compute_nodes, WithMissing(option))
                    = {node \in StoredNodes : LacksField(node, option)})
    /\ [][engine = "duckdb" =>
            \A query \in MissingQueries :
                SearchNodes(query)
                => foundNodes' =
                       {node \in StoredNodes :
                           /\ query.missingIPV4 = "true" => LacksField(node, "MissingIPV4")
                           /\ query.missingIPV6 = "true" => LacksField(node, "MissingIPV6")}]_vars

\* ------------------------------------------------------------------------
\* Snapshots: directory names and the choice of the directory to restore.
\* ------------------------------------------------------------------------

\* A file name is the sequence of its bytes. Digits(n, width) is n printed in
\* decimal, padded with zeros to the width.
RECURSIVE Digits(_, _)
Digits(n, width) ==
    IF width = 0 THEN << >> ELSE Digits(n \div 10, width - 1) \o <<48 + (n % 10)>>

\* A time of the clock, and time.Format with layout "2006-01-02T15-04-05"
\* (45 is the hyphen, 84 the letter T).
Time(year, month, day, hour, minute, second) ==
    [Year |-> year, Month |-> month, Day |-> day,
     Hour |-> hour, Minute |-> minute, Second |-> second]
FormatTime(t) ==
    Digits(t.Year, 4) \o <<45>> \o Digits(t.Month, 2) \o <<45>> \o Digits(t.Day, 2)
        \o <<84>> \o Digits(t.Hour, 2) \o <<45>> \o Digits(t.Minute, 2)
        \o <<45>> \o Digits(t.Second, 2)

\* The > of Go strings: byte by byte, a proper prefix is the smaller string.
RECURSIVE StringGreater(_, _)
StringGreater(a, b) ==
    IF a = << >> THEN FALSE
    ELSE IF b = << >> THEN TRUE
    ELSE IF a[1] # b[1] THEN a[1] > b[1]
    ELSE StringGreater(Tail(a), Tail(b))

\* An entry of the snapshot root: a plain file, or a directory with the files
\* EXPORT DATABASE writes into it (schema.sql, load.sql and the rows of the
\* tables). A file of a directory is "ok", "missing" or "broken".
Entry(name, isDir, schema, load, nodeRows, bmcRows) ==
    [Name |-> name, IsDir |-> isDir, schema |-> schema, load |-> load,
     compute_nodes |-> nodeRows, bmcs |-> bmcRows]
PlainFile(name) == Entry(name, FALSE, "missing", "missing", {}, {})
EmptySnapshot(name) == Entry(name, TRUE, "ok", "ok", {}, {})

\* The errors of the restore.
ReadDirError == Errorf("open %s: no such file or directory", <<"snapshots/">>)
NoSnapshotDirectories == Errorf("no snapshot directories found", << >>)

\* Mutant: plain files are not filtered out.
findMostRecentSnapshotDirAnyEntry(root) ==
    LET dirs == root.entries
    IN  IF ~root.exists THEN SnapshotDir(<< >>, ReadDirError)
        ELSE IF dirs = {} THEN SnapshotDir(<< >>, NoSnapshotDirectories)
        ELSE SnapshotDir(
                 (CHOOSE first \in dirs :
                     \A other \in dirs \ {first} : StringGreater(first.Name, other.Name)).Name,
                 NilError)

\* findMostRecentSnapshotDir: the directories among the entries, sorted by
\* name in descending order; the first one.
findMostRecentSnapshotDir(root) ==
    LET dirs == {entry \in root.entries : entry.IsDir}
    IN  IF ~root.exists THEN SnapshotDir(<< >>, ReadDirError)
        ELSE IF dirs = {} THEN SnapshotDir(<< >>, NoSnapshotDirectories)
        ELSE SnapshotDir(
                 (CHOOSE first \in dirs :
                     \A other \in dirs \ {first} : StringGreater(first.Name, other.Name)).Name,
                 NilError)

\* A call of findMostRecentSnapshotDir on the snapshot root.
FindMostRecentSnapshotDir ==
    /\ snapshotDir' = findMostRecentSnapshotDir(snapshotRoot)
    /\ UNCHANGED <<managerVars, nextUUID, result, workerVars, inventoryVars, foundNodes,
                   shutdownVars, peripheralVars,
                   snapshotRoot, lifecycle, logged, routine, clock, ticks, flags,
                   tablesCreated, lastExport>>

\* The names the snapshot root may hold: four timestamps, a name that is a
\* proper prefix of a timestamp, and "tmp".
SnapshotJanuary == FormatTime(Time(2024, 1, 1, 0, 0, 0))
SnapshotJune == FormatTime(Time(2024, 6, 1, 0, 0, 0))
EntryNames ==
    {SnapshotJanuary, SnapshotJune,
     FormatTime(Time(2024, 6, 1, 0, 0, 1)),
     FormatTime(Time(2023, 12, 31, 23, 59, 59)),
     Digits(2024, 4),
     <<116, 109, 112>>}

\* The contents of a snapshot root: every name is absent, a plain file or a
\* directory.
Listings ==
    {{IF kind[name] = "dir" THEN EmptySnapshot(name) ELSE PlainFile(name) :
         name \in {n \in EntryNames : kind[n] # "absent"}} :
     kind \in [EntryNames -> {"absent", "file", "dir"}]}

SelectInit ==
    \E listing \in Listings :
        /\ InventoryInit("duckdb")
        /\ SnapshotInit(SnapshotRoot(TRUE, listing), "Initializing", FALSE, NoFlags)

SelectNext == FindMostRecentSnapshotDir

SpecSelect == SelectInit /\ [][SelectNext]_vars

\* a < b in the lexicographic order of byte strings: they agree on a prefix
\* after which a ends and b goes on, or a has the smaller byte.
LexLess(a, b) ==
    \E k \in 0 .. Len(a) :
        /\ k <= Len(b)
        /\ \A i \in 1 .. k : a[i] = b[i]
        /\ \/ k = Len(a) /\ k < Len(b)
           \/ k < Len(a) /\ k < Len(b) /\ a[k + 1] < b[k + 1]

\* The names of the immediate subdirectories of the snapshot root.
SubdirectoryNames == {entry.Name : entry \in {e \in snapshotRoot.entries : e.IsDir}}

\* C26: restore selects, among the immediate subdirectories of the snapshot
\* root (plain files are ignored), the one whose name is lexicographically
\* greatest; with directories 2024-01-01T00-00-00 and 2024-06-01T00-00-00 it
\* selects the latter.
C26_SelectsGreatestDirectory ==
    [][FindMostRecentSnapshotDir =>
          /\ SubdirectoryNames # {} =>
                /\ snapshotDir'.err = NilError
                /\ snapshotDir'.name \in SubdirectoryNames
                /\ \A name \in SubdirectoryNames \ {snapshotDir'.name} :
                       LexLess(name, snapshotDir'.name)
          /\ SubdirectoryNames = {SnapshotJanuary, SnapshotJune} =>
                snapshotDir'.name = SnapshotJune]_vars

\* C26 witness: the directory of June was selected although a plain file has
\* a greater name and the directory of January is there too.
C26_Witness ==
    /\ snapshotDir = SnapshotDir(SnapshotJune, NilError)
    /\ SnapshotJanuary \in SubdirectoryNames
    /\ \E entry \in snapshotRoot.entries :
           ~entry.IsDir /\ LexLess(SnapshotJune, entry.Name)

\* ------------------------------------------------------------------------
\* Snapshots: export, restore, startup, the snapshot routine and shutdown.
\* ------------------------------------------------------------------------

\* The clock runs over the seconds 1 .. MaxClock of one minute; time.Now() is
\* never earlier than the last time read.
MaxClock == 2
Now(second) == Time(2024, 6, 1, 0, 0, second)

\* The routine counts its ticks modulo TickWrap.
TickWrap == 2

\* Log entries: the level and the message.
LogEntry(level, msg) == <<level, msg>>
OptionWarning == LogEntry("warn", "Error applying DuckDBStorage option")
SnapshotError == LogEntry("error", "Error taking snapshot")
FinalSnapshotError == LogEntry("error", "Error taking final snapshot")
FinalSnapshotInfo == LogEntry("info", "Taking final snapshot before shutdown")
StoppingRoutine == LogEntry("info", "Stopping snapshot routine")
RoutineStopped == LogEntry("info", "Snapshot routine stopped")
DrainedCleanly == LogEntry("info", "All goroutines finished cleanly")
DrainTimeout == LogEntry("warn", "Timeout waiting for goroutines to finish")
ClosingDatabase == LogEntry("info", "Closing database connection")

\* Mutant: the export leaves the table bmcs out.
SnapshotParquetWithoutBMCs(root, name, nodeRows, bmcRows, exported) ==
    SnapshotRoot(TRUE,
        {entry \in root.entries : entry.Name # name}
        \cup {IF exported
              THEN Entry(name, TRUE, "ok", "ok", nodeRows, {})
              ELSE Entry(name, TRUE, "missing", "missing", {}, {})})

\* SnapshotParquet: os.MkdirAll of the directory named by the clock, then
\* EXPORT DATABASE into it, which writes schema.sql, load.sql and the rows of
\* every table, or fails and writes nothing.
SnapshotParquet(root, name, nodeRows, bmcRows, exported) ==
    SnapshotRoot(TRUE,
        {entry \in root.entries : entry.Name # name}
        \cup {IF exported
              THEN Entry(name, TRUE, "ok", "ok", nodeRows, bmcRows)
              ELSE Entry(name, TRUE, "missing", "missing", {}, {})})

\* The errors of RestoreParquet.
SchemaError == Errorf("error executing schema.sql: %w", << >>)
LoadError == Errorf("error executing load.sql: %w", << >>)

\* What RestoreParquet leaves behind: its error, whether the tables exist,
\* and their rows.
Restored(err, tables, nodeRows, bmcRows) ==
    [err |-> err, tablesCreated |-> tables, compute_nodes |-> nodeRows, bmcs |-> bmcRows]

\* RestoreParquet: schema.sql is executed (CREATE TABLE fails when the tables
\* exist already), then load.sql, which copies the rows into the tables.
RestoreParquet(entry, tables, nodeRows, bmcRows) ==
    IF entry.schema # "ok" \/ tables
    THEN Restored(SchemaError, tables, nodeRows, bmcRows)
    ELSE IF entry.load # "ok"
    THEN Restored(LoadError, TRUE, nodeRows, bmcRows)
    ELSE Restored(NilError, TRUE, nodeRows \cup entry.compute_nodes, bmcRows \cup entry.bmcs)

\* The entry of the root with the given name.
EntryNamed(root, name) == CHOOSE entry \in root.entries : entry.Name = name

\* DuckDBStorage.restore: the most recent directory is looked up and
\* restored.
restore(root, tables, nodeRows, bmcRows) ==
    LET dir == findMostRecentSnapshotDir(root)
    IN  IF dir.err # NilError
        THEN [dir |-> dir, restored |-> Restored(dir.err, tables, nodeRows, bmcRows)]
        ELSE [dir |-> dir,
              restored |-> RestoreParquet(EntryNamed(root, dir.name), tables, nodeRows, bmcRows)]

\* Mutant: the error of the restore option is returned and serveAPI ends with
\* log.Fatal.
PhaseAfterOptionsFatal(err) == IF err # NilError THEN "Failed" ELSE "Running"

\* Where serveAPI stands after NewDuckDBStorage: the error of an option is
\* not returned, so the check of serveAPI for an error never fires and the
\* server is started.
PhaseAfterOptions(err) == "Running"

\* serveAPI up to the start of the server: the options are collected from the
\* flags and NewDuckDBStorage applies them in this order: WithInitTables,
\* WithSnapshotPath, WithCreateSnapshotDir, WithSnapshotFrequency and
\* WithRestore. The error of an option is logged as a warning. Then the tables
\* are created if they do not exist, the storage is returned without an
\* error, and the routes are mounted.
ServeAPI(fl) ==
    LET tablesAfterInit == tablesCreated \/ fl.initTables
        rootAfterCreate ==
            IF fl.snapshotDirCreate
            THEN SnapshotRoot(TRUE, snapshotRoot.entries)
            ELSE snapshotRoot
        r == restore(rootAfterCreate, tablesAfterInit, compute_nodes, bmcs)
    IN  /\ lifecycle = "Initializing"
        /\ flags' = fl
        /\ snapshotRoot' = rootAfterCreate
        /\ IF fl.restoreSnapshot
           THEN /\ snapshotDir' = r.dir
                /\ compute_nodes' = r.restored.compute_nodes
                /\ bmcs' = r.restored.bmcs
                /\ logged' = IF r.restored.err # NilError
                             THEN logged \cup {OptionWarning}
                             ELSE logged
           ELSE UNCHANGED <<snapshotDir, compute_nodes, bmcs, logged>>
        /\ tablesCreated' = TRUE
        /\ lifecycle' = PhaseAfterOptions(IF fl.restoreSnapshot THEN r.restored.err ELSE NilError)
        /\ UNCHANGED <<managerVars, nextUUID, result, workerVars, engine, inMemoryNodes,
                       bmcEntries, nextBMCUUID, foundNodes, shutdownVars, peripheralVars,
                       routine, clock, ticks,
                       lastExport>>

\* One export at the time now, successful or not.
Export(now, exported) ==
    /\ now \in clock .. MaxClock
    /\ clock' = now
    /\ snapshotRoot' = SnapshotParquet(snapshotRoot, FormatTime(Now(now)),
                                       compute_nodes, bmcs, exported)
    /\ lastExport' = IF exported THEN "ok" ELSE "failed"

\* Mutant: the routine returns when SnapshotParquet fails.
SnapshotTickReturnOnError(now, exported) ==
    /\ routine = "running"
    /\ lifecycle = "Running"
    /\ Export(now, exported)
    /\ logged' = IF exported THEN logged ELSE logged \cup {SnapshotError}
    /\ ticks' = (ticks + 1) % TickWrap
    /\ routine' = IF exported THEN routine ELSE "stopped"
    /\ UNCHANGED <<managerVars, nextUUID, result, workerVars, inventoryVars, foundNodes,
                   shutdownVars, peripheralVars,
                   snapshotDir, lifecycle, flags, tablesCreated>>

\* snapshotRoutine, one turn of its loop on a tick: SnapshotParquet is called
\* and its error is logged.
SnapshotTick(now, exported) ==
    /\ routine = "running"
    /\ lifecycle = "Running"
    /\ Export(now, exported)
    /\ logged' = IF exported THEN logged ELSE logged \cup {SnapshotError}
    /\ ticks' = (ticks + 1) % TickWrap
    /\ UNCHANGED <<managerVars, nextUUID, result, workerVars, inventoryVars, foundNodes,
                   shutdownVars, peripheralVars,
                   snapshotDir, lifecycle, routine, flags, tablesCreated>>

\* Shutdown after a signal: the final snapshot is taken, the routine is
\* cancelled and waited for, and the database is closed.
Shutdown(now, exported) ==
    /\ lifecycle = "Running"
    /\ Export(now, exported)
    /\ logged' = logged
                  \cup {FinalSnapshotInfo, StoppingRoutine, DrainedCleanly, ClosingDatabase}
                  \cup (IF exported THEN {} ELSE {FinalSnapshotError})
                  \cup (IF routine = "running" THEN {RoutineStopped} ELSE {})
    /\ routine' = IF routine = "running" THEN "stopped" ELSE routine
    /\ lifecycle' = "Closed"
    /\ shutdownPC' = "done"
    /\ snapshotCancelled' = TRUE
    /\ snapshotWG' = 0
    /\ UNCHANGED <<managerVars, nextUUID, result, workerVars, inventoryVars, foundNodes,
                   peripheralVars, shutdownDeadline, tickPending,
                   snapshotDir, ticks, flags, tablesCreated>>

\* A node registration while the server is running.
ServePostNode(body) ==
    /\ lifecycle = "Running"
    /\ PostNode(body)

\* The server after NewDuckDBStorage has started the snapshot routine, with
\* an empty snapshot root: registrations, ticks of the routine, shutdown.
RoutineFlags == ServeFlags(FALSE, 1, TRUE, FALSE)
RoutineInit ==
    /\ InventoryInit("duckdb")
    /\ snapshotRoot = SnapshotRoot(TRUE, {})
    /\ snapshotDir = NoSnapshotDir
    /\ lifecycle = "Running"
    /\ logged = {}
    /\ routine = "running"
    /\ clock = 1
    /\ ticks = 0
    /\ flags = RoutineFlags
    /\ tablesCreated = TRUE
    /\ lastExport = "none"
    /\ shutdownPC = "idle"
    /\ snapshotCancelled = FALSE
    /\ snapshotWG = 1
    /\ shutdownDeadline = FALSE
    /\ tickPending = FALSE

RoutineNext ==
    \/ \E body \in PostNodeBodies : ServePostNode(body)
    \/ \E now \in 1 .. MaxClock, exported \in BOOLEAN : SnapshotTick(now, exported)
    \/ \E now \in 1 .. MaxClock, exported \in BOOLEAN : Shutdown(now, exported)

SpecRoutine == RoutineInit /\ [][RoutineNext]_vars

\* The directory the last export wrote.
LastExportEntry == EntryNamed(snapshotRoot, FormatTime(Now(clock)))

SnapshotBMC == BMC(1, BMCXNameA, "")
SnapshotNodeRows ==
    DuckDBSaveComputeNode({}, 1, ComputeNode(1, "h1", XNameA, SnapshotBMC)).table
SnapshotBMCRows == DuckDBSaveBMC({}, 1, SnapshotBMC).table
ValidSnapshot(name) == Entry(name, TRUE, "ok", "ok", SnapshotNodeRows, SnapshotBMCRows)

\* The snapshot roots the server may start on: missing, empty, with a plain
\* file only, with one valid snapshot, and with a valid snapshot and a more
\* recent directory whose schema.sql and load.sql are each ok, missing or
\* broken.
StartupRoots ==
    {MissingRoot,
     SnapshotRoot(TRUE, {}),
     SnapshotRoot(TRUE, {PlainFile(SnapshotJune)}),
     SnapshotRoot(TRUE, {ValidSnapshot(SnapshotJanuary)})}
    \cup {SnapshotRoot(TRUE, {ValidSnapshot(SnapshotJanuary),
                              Entry(SnapshotJune, TRUE, schema, load,
                                    SnapshotNodeRows, SnapshotBMCRows)}) :
             schema \in {"ok", "missing", "broken"}, load \in {"ok", "missing", "broken"}}

\* The flags of serve: snapshots every clock tick or disabled.
FlagSets ==
    {ServeFlags(initTables, snapshotFreq, snapshotDirCreate, restoreSnapshot) :
        initTables \in BOOLEAN, snapshotFreq \in {0, 1},
        snapshotDirCreate \in BOOLEAN, restoreSnapshot \in BOOLEAN}

\* The server from its start to its shutdown, on a new database file.
ServeInit ==
    \E root \in StartupRoots :
        /\ InventoryInit("duckdb")
        /\ SnapshotInit(root, "Initializing", FALSE, NoFlags)

ServeNext ==
    \/ \E fl \in FlagSets : ServeAPI(fl)
    \/ \E now \in 1 .. MaxClock, exported \in BOOLEAN : Shutdown(now, exported)

SpecServe == ServeInit /\ [][ServeNext]_vars

\* serveAPI runs to the start of the server; requests and the shutdown signal
\* come from outside.
SpecServeFair == SpecServe /\ WF_vars(\E fl \in FlagSets : ServeAPI(fl))

\* The snapshot root restore reads under flags fl: WithCreateSnapshotDir has
\* made the directory by then.
RootAtRestore(fl) ==
    IF fl.snapshotDirCreate THEN SnapshotRoot(TRUE, snapshotRoot.entries) ELSE snapshotRoot

C28_InvalidSnapshotIsFatal ==
    [][\A fl \in FlagSets :
          ( /\ ServeAPI(fl)
            /\ fl.restoreSnapshot
            /\ findMostRecentSnapshotDir(RootAtRestore(fl)).err = NilError
            /\ LET entry == EntryNamed(RootAtRestore(fl),
                                       findMostRecentSnapshotDir(RootAtRestore(fl)).name)
               IN  entry.schema # "ok" \/ entry.load # "ok" )
          => lifecycle' = "Failed"]_vars

\* C29: while the subsystem is Running with a positive export interval, an
\* export of the engine state is attempted on every interval tick: exports
\* are attempted again and again until shutdown is requested.
C29_ExportsOnEveryTick ==
    \/ [](~(lifecycle = "Running" /\ flags.snapshotFreq > 0))
    \/ []<><<\E now \in 1 .. MaxClock, exported \in BOOLEAN :
                SnapshotTick(now, exported)>>_vars
    \/ <>(lifecycle = "Closed")

\* The ticker of the routine delivers a tick every interval while the routine
\* runs.
SpecRoutineFair ==
    SpecRoutine
    /\ WF_vars(\E now \in 1 .. MaxClock, exported \in BOOLEAN : SnapshotTick(now, exported))

\* C30: a failed export on a scheduled tick is only logged: the scheduler
\* keeps running, the next tick attempts an export again, and the process is
\* not terminated.
C30_FailedExportIsRetried ==
    /\ [][\A now \in 1 .. MaxClock :
             SnapshotTick(now, FALSE)
             => ( /\ SnapshotError \in logged'
                  /\ routine' = "running"
                  /\ lifecycle' = "Running" )]_vars
    /\ \A n \in 0 .. (TickWrap - 1) :
           ( lastExport = "failed" /\ ticks = n /\ lifecycle = "Running" )
           ~> ( ticks # n \/ lifecycle # "Running" )

\* C30 witness: an export has succeeded on a tick after the export of an
\* earlier tick had failed.
C30_Witness ==
    /\ lifecycle = "Running"
    /\ routine = "running"
    /\ SnapshotError \in logged
    /\ lastExport = "ok"

\* ------------------------------------------------------------------------
\* The claim maps and the two indices of the collection manager
\* ------------------------------------------------------------------------

\* C37: for every constrained type, the constraint's claim map always equals
\* the membership of the existing collections of that type: it maps node n to
\* collection id if and only if a collection with that id currently exists,
\* has that type and lists n as a member.
C37_ClaimMapIsMembership ==
    \A t \in DOMAIN Constraints, n \in NodeXnames, id \in UUIDs :
        ( /\ n \in DOMAIN ExistingNodes[Constraints[t]]
          /\ ExistingNodes[Constraints[t]][n] = id )
        <=> id \in Holders(t, n)

\* C38: the two collection indices always agree: every entry of the name
\* index maps a name to the record that is currently stored in the ID index
\* under that record's ID and whose current name is that name, and every
\* collection in the ID index with a non-empty name is present in the name
\* index.
C38_IndicesAgree ==
    /\ \A name \in DOMAIN CollectionsByName :
           LET collection == CollectionsByName[name]
           IN  /\ collection.ID \in DOMAIN CollectionsByID
               /\ CollectionsByID[collection.ID] = collection
               /\ collection.Name = name
    /\ \A id \in DOMAIN CollectionsByID :
           CollectionsByID[id].Name # ""
           => CollectionsByID[id].Name \in DOMAIN CollectionsByName

\* ------------------------------------------------------------------------
\* The directories of the exports
\* ------------------------------------------------------------------------

\* The names of the directories under the snapshot root.
ExportedNames == {entry.Name : entry \in snapshotRoot.entries}

\* C34: every export writes to a new directory: the directory name derived
\* from the clock for an export differs from the directory of every earlier
\* export under the same root, including when the shutdown export and a
\* periodic export happen within the same clock second.
C34_ExportsToNewDirectory ==
    [][\A now \in 1 .. MaxClock, exported \in BOOLEAN :
          ( SnapshotTick(now, exported) \/ Shutdown(now, exported) )
          => FormatTime(Now(now)) \notin ExportedNames]_vars

\* ------------------------------------------------------------------------
\* Shutdown step by step, next to the snapshotRoutine goroutine that
\* NewDuckDBStorage has started
\* ------------------------------------------------------------------------

\* The process runs until the handle is closed and serveAPI returns, or a
\* goroutine panics.
ProcessAlive == lifecycle \in {"Running", "ShuttingDown"}

\* snapshotRoutine up to its loop: time.NewTicker panics for an interval that
\* is not positive, the deferred wg.Done runs and the process ends.
SnapshotRoutineStart ==
    /\ routine = "started"
    /\ ProcessAlive
    /\ IF flags.snapshotFreq <= 0
       THEN /\ routine' = "panicked"
            /\ snapshotWG' = snapshotWG - 1
            /\ lifecycle' = "Crashed"
       ELSE /\ routine' = "running"
            /\ UNCHANGED <<snapshotWG, lifecycle>>
    /\ UNCHANGED <<managerVars, nextUUID, result, workerVars, inventoryVars, foundNodes,
                   peripheralVars, shutdownPC, snapshotCancelled, shutdownDeadline,
                   tickPending, snapshotRoot, snapshotDir, logged, clock, ticks, flags,
                   tablesCreated, lastExport>>

\* The ticker sends a tick into ticker.C, which holds one tick, until the
\* routine returns and stops it.
TickerFires ==
    /\ routine \in {"running", "exporting"}
    /\ ProcessAlive
    /\ ~tickPending
    /\ tickPending' = TRUE
    /\ UNCHANGED <<managerVars, nextUUID, result, workerVars, inventoryVars, foundNodes,
                   peripheralVars, shutdownPC, snapshotCancelled, snapshotWG,
                   shutdownDeadline, snapshotVars>>

\* The select of snapshotRoutine, case ctx.Done: the routine returns.
SnapshotRoutineStop ==
    /\ routine = "running"
    /\ ProcessAlive
    /\ snapshotCancelled
    /\ routine' = "stopped"
    /\ snapshotWG' = snapshotWG - 1
    /\ logged' = logged \cup {RoutineStopped}
    /\ UNCHANGED <<managerVars, nextUUID, result, workerVars, inventoryVars, foundNodes,
                   peripheralVars, shutdownPC, snapshotCancelled, shutdownDeadline,
                   tickPending, snapshotRoot, snapshotDir, lifecycle, clock, ticks, flags,
                   tablesCreated, lastExport>>

\* The select of snapshotRoutine, case ticker.C: the tick is taken and
\* SnapshotParquet is called. When the context is cancelled as well, select
\* chooses either case.
SnapshotRoutineTick ==
    /\ routine = "running"
    /\ ProcessAlive
    /\ tickPending
    /\ tickPending' = FALSE
    /\ routine' = "exporting"
    /\ UNCHANGED <<managerVars, nextUUID, result, workerVars, inventoryVars, foundNodes,
                   peripheralVars, shutdownPC, snapshotCancelled, snapshotWG,
                   shutdownDeadline, snapshotRoot, snapshotDir, lifecycle, logged, clock,
                   ticks, flags, tablesCreated, lastExport>>

\* SnapshotParquet of the routine returns: its error is logged and the
\* routine is back at its select.
SnapshotRoutineExport(now, exported) ==
    /\ routine = "exporting"
    /\ ProcessAlive
    /\ Export(now, exported)
    /\ logged' = IF exported THEN logged ELSE logged \cup {SnapshotError}
    /\ ticks' = (ticks + 1) % TickWrap
    /\ routine' = "running"
    /\ UNCHANGED <<managerVars, nextUUID, result, workerVars, inventoryVars, foundNodes,
                   peripheralVars, shutdownVars, snapshotDir, lifecycle, flags,
                   tablesCreated>>

\* serveAPI receives the signal and creates the context of Shutdown with its
\* timeout.
ShutdownSignal ==
    /\ lifecycle = "Running"
    /\ shutdownPC = "idle"
    /\ lifecycle' = "ShuttingDown"
    /\ shutdownPC' = "snapshot"
    /\ UNCHANGED <<managerVars, nextUUID, result, workerVars, inventoryVars, foundNodes,
                   peripheralVars, snapshotCancelled, snapshotWG, shutdownDeadline,
                   tickPending, snapshotRoot, snapshotDir, logged, routine, clock, ticks,
                   flags, tablesCreated, lastExport>>

\* The timeout of the context of Shutdown passes.
DeadlineExpires ==
    /\ lifecycle = "ShuttingDown"
    /\ ~shutdownDeadline
    /\ shutdownDeadline' = TRUE
    /\ UNCHANGED <<managerVars, nextUUID, result, workerVars, inventoryVars, foundNodes,
                   peripheralVars, shutdownPC, snapshotCancelled, snapshotWG, tickPending,
                   snapshotVars>>

\* Mutant: Shutdown returns when the final snapshot fails.
ShutdownFinalSnapshotReturnOnError(now, exported) ==
    /\ lifecycle = "ShuttingDown"
    /\ shutdownPC = "snapshot"
    /\ shutdownDeadline => ~exported
    /\ Export(now, exported)
    /\ logged' = logged \cup {FinalSnapshotInfo}
                        \cup (IF exported THEN {} ELSE {FinalSnapshotError})
    /\ shutdownPC' = IF exported THEN "cancel" ELSE "done"
    /\ UNCHANGED <<managerVars, nextUUID, result, workerVars, inventoryVars, foundNodes,
                   peripheralVars, snapshotCancelled, snapshotWG, shutdownDeadline,
                   tickPending, snapshotDir, lifecycle, routine, ticks, flags,
                   tablesCreated>>

\* Shutdown, first step: the final snapshot under the context of Shutdown,
\* which fails once the context has expired; its error is logged.
ShutdownFinalSnapshot(now, exported) ==
    /\ lifecycle = "ShuttingDown"
    /\ shutdownPC = "snapshot"
    /\ shutdownDeadline => ~exported
    /\ Export(now, exported)
    /\ logged' = logged \cup {FinalSnapshotInfo}
                        \cup (IF exported THEN {} ELSE {FinalSnapshotError})
    /\ shutdownPC' = "cancel"
    /\ UNCHANGED <<managerVars, nextUUID, result, workerVars, inventoryVars, foundNodes,
                   peripheralVars, snapshotCancelled, snapshotWG, shutdownDeadline,
                   tickPending, snapshotDir, lifecycle, routine, ticks, flags,
                   tablesCreated>>

\* Shutdown, second step: d.cancelSnapshot().
ShutdownCancel ==
    /\ lifecycle = "ShuttingDown"
    /\ shutdownPC = "cancel"
    /\ snapshotCancelled' = TRUE
    /\ logged' = logged \cup {StoppingRoutine}
    /\ shutdownPC' = "wait"
    /\ UNCHANGED <<managerVars, nextUUID, result, workerVars, inventoryVars, foundNodes,
                   peripheralVars, snapshotWG, shutdownDeadline, tickPending, snapshotRoot,
                   snapshotDir, lifecycle, routine, clock, ticks, flags, tablesCreated,
                   lastExport>>

\* Mutant: the wait has no deadline (d.wg.Wait() alone).
ShutdownWaitUnbounded ==
    /\ lifecycle = "ShuttingDown"
    /\ shutdownPC = "wait"
    /\ snapshotWG = 0
    /\ logged' = logged \cup {DrainedCleanly}
    /\ shutdownPC' = "close"
    /\ UNCHANGED <<managerVars, nextUUID, result, workerVars, inventoryVars, foundNodes,
                   peripheralVars, snapshotCancelled, snapshotWG, shutdownDeadline,
                   tickPending, snapshotRoot, snapshotDir, lifecycle, routine, clock, ticks,
                   flags, tablesCreated, lastExport>>

\* Shutdown, third step: the select on done, which is closed once d.wg.Wait()
\* has returned, and on ctx.Done; select chooses either case when both are
\* ready.
ShutdownWait ==
    /\ lifecycle = "ShuttingDown"
    /\ shutdownPC = "wait"
    /\ \/ snapshotWG = 0 /\ logged' = logged \cup {DrainedCleanly}
       \/ shutdownDeadline /\ logged' = logged \cup {DrainTimeout}
    /\ shutdownPC' = "close"
    /\ UNCHANGED <<managerVars, nextUUID, result, workerVars, inventoryVars, foundNodes,
                   peripheralVars, snapshotCancelled, snapshotWG, shutdownDeadline,
                   tickPending, snapshotRoot, snapshotDir, lifecycle, routine, clock, ticks,
                   flags, tablesCreated, lastExport>>

\* Shutdown, fourth step: d.Close(); Shutdown and serveAPI return.
ShutdownClose ==
    /\ lifecycle = "ShuttingDown"
    /\ shutdownPC = "close"
    /\ logged' = logged \cup {ClosingDatabase}
    /\ lifecycle' = "Closed"
    /\ shutdownPC' = "done"
    /\ UNCHANGED <<managerVars, nextUUID, result, workerVars, inventoryVars, foundNodes,
                   peripheralVars, snapshotCancelled, snapshotWG, shutdownDeadline,
                   tickPending, snapshotRoot, snapshotDir, routine, clock, ticks, flags,
                   tablesCreated, lastExport>>

\* The server as NewDuckDBStorage returns it once it has started the
\* snapshotRoutine goroutine, with the snapshot interval fl.snapshotFreq.
StartedInit(fl) ==
    /\ InventoryInit("duckdb")
    /\ snapshotRoot = SnapshotRoot(TRUE, {})
    /\ snapshotDir = NoSnapshotDir
    /\ lifecycle = "Running"
    /\ logged = {}
    /\ routine = "started"
    /\ clock = 1
    /\ ticks = 0
    /\ flags = fl
    /\ tablesCreated = TRUE
    /\ lastExport = "none"
    /\ shutdownPC = "idle"
    /\ snapshotCancelled = FALSE
    /\ snapshotWG = 1
    /\ shutdownDeadline = FALSE
    /\ tickPending = FALSE

ShutdownNext ==
    \/ SnapshotRoutineStart
    \/ TickerFires
    \/ SnapshotRoutineStop
    \/ SnapshotRoutineTick
    \/ \E now \in 1 .. MaxClock, exported \in BOOLEAN : SnapshotRoutineExport(now, exported)
    \/ ShutdownSignal
    \/ DeadlineExpires
    \/ \E now \in 1 .. MaxClock, exported \in BOOLEAN : ShutdownFinalSnapshot(now, exported)
    \/ ShutdownCancel
    \/ ShutdownWait
    \/ ShutdownClose

\* The server with snapshots disabled (interval zero) or enabled.
IntervalInit == \E freq \in {0, 1} : StartedInit(ServeFlags(FALSE, freq, TRUE, FALSE))
SpecInterval == IntervalInit /\ [][ShutdownNext]_vars

\* The server with snapshots enabled.
ShutdownInit == StartedInit(RoutineFlags)
SpecShutdown == ShutdownInit /\ [][ShutdownNext]_vars

\* C31: with an export interval of zero the periodic export is disabled: the
\* storage starts and keeps running normally, no periodic export is ever
\* attempted, and only the shutdown export occurs.
C31_ZeroIntervalDisablesExport ==
    flags.snapshotFreq = 0
    => ( /\ lifecycle \in {"Running", "ShuttingDown", "Closed"}
         /\ routine \notin {"exporting", "panicked"}
         /\ SnapshotError \notin logged
         /\ lastExport # "none" => FinalSnapshotInfo \in logged )

\* C39: once shutdown has cancelled the periodic scheduler, no new periodic
\* export begins: a tick that is pending at the moment of cancellation, or
\* that fires afterwards, does not start an export.
C39_NoExportAfterCancel ==
    [][snapshotCancelled => ~(routine # "exporting" /\ routine' = "exporting")]_vars

\* Shutdown runs its steps one after the other; the routine, the ticker and
\* the timer of the deadline run on their own; the signal comes from outside
\* and an export of the routine may never return.
SpecShutdownFair ==
    /\ SpecShutdown
    /\ WF_vars(\E now \in 1 .. MaxClock, exported \in BOOLEAN :
                   ShutdownFinalSnapshot(now, exported))
    /\ WF_vars(ShutdownCancel)
    /\ WF_vars(ShutdownWait)
    /\ WF_vars(ShutdownClose)
    /\ WF_vars(DeadlineExpires)

\* Whether the wait of Shutdown has ended.
WaitEnded == DrainedCleanly \in logged \/ DrainTimeout \in logged

\* C32: Shutdown performs its steps in this order: the final export is
\* attempted first, then the periodic scheduler is cancelled, then the wait
\* for in-flight background export work, and only then is the engine handle
\* closed; a failure of the final export does not skip any later step.
C32_ShutdownStepOrder ==
    /\ [](snapshotCancelled => FinalSnapshotInfo \in logged)
    /\ [](WaitEnded => snapshotCancelled)
    /\ [](lifecycle = "Closed" => WaitEnded)
    /\ [](shutdownPC = "done"
            => (lifecycle = "Closed" /\ WaitEnded /\ snapshotCancelled))
    /\ [][\A now \in 1 .. MaxClock :
             ShutdownFinalSnapshot(now, FALSE)
             => (shutdownPC' = "cancel" /\ ~snapshotCancelled' /\ lifecycle' = "ShuttingDown")]_vars
    /\ [][(lifecycle' = "Closed" /\ lifecycle # "Closed")
             => (shutdownPC = "close" /\ WaitEnded /\ snapshotCancelled)]_vars
    /\ [][(snapshotCancelled' /\ ~snapshotCancelled)
             => (shutdownPC = "cancel" /\ FinalSnapshotInfo \in logged /\ ~WaitEnded)]_vars

\* C32 witness: the handle is closed after a final export that failed.
C32_Witness ==
    /\ lifecycle = "Closed"
    /\ shutdownPC = "done"
    /\ FinalSnapshotError \in logged
    /\ snapshotCancelled
    /\ WaitEnded

XNameText(cabinet, chassis, slot, bmc, node) ==
    [cabinet |-> cabinet, chassis |-> chassis, slot |-> slot, bmc |-> bmc, node |-> node]

\* strconv.Atoi on a run of digits.
RECURSIVE Atoi(_)
Atoi(digits) ==
    IF digits = << >>
    THEN 0
    ELSE 10 * Atoi(SubSeq(digits, 1, Len(digits) - 1)) + digits[Len(digits)]

\* What Valid returns.
Verdict(ok, err) == [done |-> TRUE, ok |-> ok, err |-> err]
RegexMismatch == Errorf("XName does not match regex", << >>)
ChassisTooLarge(chassis) ==
    Errorf("chassis number %d exceeds the maximum allowed value of 255", <<chassis>>)

\* NodeXname.Valid: the pattern wants three to five digits for the cabinet
\* and one to three digits for every other field; of the numbers only the
\* chassis is compared with its bound.
Valid(xname) ==
    IF ~( /\ Len(xname.cabinet) \in 3 .. 5
          /\ Len(xname.chassis) \in 1 .. 3
          /\ Len(xname.slot) \in 1 .. 3
          /\ Len(xname.bmc) \in 1 .. 3
          /\ Len(xname.node) \in 1 .. 3 )
    THEN Verdict(FALSE, RegexMismatch)
    ELSE IF Atoi(xname.chassis) >= 256
    THEN Verdict(FALSE, ChassisTooLarge(Atoi(xname.chassis)))
    ELSE Verdict(TRUE, NilError)

\* A call of Valid.
ValidateXName(xname) ==
    /\ checkedXName' = xname
    /\ checkedValid' = Valid(xname)
    /\ UNCHANGED <<managerVars, nextUUID, result, workerVars, inventoryVars, foundNodes,
                   snapshotVars, shutdownVars, componentVars, loggerVars>>

\* The texts validated: cabinets 1, 100, 001, 99999 and 100000, chassis 0,
\* 255, 256 and 999, and 0, 255 and 256 for the slot, the BMC and the node.
CabinetTexts == {<<1>>, <<1, 0, 0>>, <<0, 0, 1>>, <<9, 9, 9, 9, 9>>, <<1, 0, 0, 0, 0, 0>>}
ChassisTexts == {<<0>>, <<2, 5, 5>>, <<2, 5, 6>>, <<9, 9, 9>>}
PositionTexts == {<<0>>, <<2, 5, 5>>, <<2, 5, 6>>}
XNameTexts ==
    {XNameText(cabinet, chassis, slot, bmc, node) :
        cabinet \in CabinetTexts, chassis \in ChassisTexts, slot \in PositionTexts,
        bmc \in PositionTexts, node \in PositionTexts}

XNamesNext == \E xname \in XNameTexts : ValidateXName(xname)
SpecXNames == Init /\ [][XNamesNext]_vars

\* C35: node XName validation accepts exactly the strings of the form
\* x<cabinet>c<chassis>s<slot>b<bmc>n<node> with cabinet at most 99999 and
\* chassis, slot, bmc position and node position each at most 255:
\* x1c0s0b0n0 is accepted, and any address with a field above its bound
\* (cabinet 100000, chassis 999, slot 256, bmc 256 or node 256) is rejected.
C35_XNameBounds ==
    checkedValid.done
    => ( checkedValid.ok
         <=> ( /\ Atoi(checkedXName.cabinet) <= 99999
               /\ Atoi(checkedXName.chassis) <= 255
               /\ Atoi(checkedXName.slot) <= 255
               /\ Atoi(checkedXName.bmc) <= 255
               /\ Atoi(checkedXName.node) <= 255 ) )

\* ------------------------------------------------------------------------
\* The component table of DuckDBStorage (smd.go)
\* ------------------------------------------------------------------------

\* Number of calls of CreateOrUpdateComponents that may still draw a UUID.
MaxComponents == 2

\* The Component fields CreateOrUpdateComponents reads; Enabled stands for
\* the attribute columns, which are all written the same way.
Component(uid, id, enabled) == [UID |-> uid, ID |-> id, Enabled |-> enabled]
ZeroComponent == Component(NilUUID, "", FALSE)

\* What a lookup returns.
Found(component, err) == [component |-> component, err |-> err]
ComponentNotFound == Errorf("component not found", << >>)

\* GetComponentByXname: row.Scan returns sql.ErrNoRows when no row has the
\* id; id is the primary key, so at most one row has it.
GetComponentByXname(table, xname) ==
    IF \E row \in table : row.ID = xname
    THEN Found(CHOOSE row \in table : row.ID = xname, NilError)
    ELSE Found(ZeroComponent, ErrNoRows)

\* GetComponentByUID: sql.ErrNoRows is replaced by an error of its own.
GetComponentByUID(table, uid) ==
    IF \E row \in table : row.UID = uid
    THEN Found(CHOOSE row \in table : row.UID = uid, NilError)
    ELSE Found(ZeroComponent, ComponentNotFound)

\* What CreateOrUpdateComponents has done so far: its error, the table and
\* the next UUID.
Stored(err, table, next) == [err |-> err, table |-> table, next |-> next]

\* The body of the loop of CreateOrUpdateComponents for one component: the
\* lookup by ID, or by UID when the ID is empty; an UPDATE of every column
\* but id, the UID of the caller included, when the component found has a
\* UID; else uuid.New() and an INSERT, which the primary key rejects when a
\* row has the id.
CreateOrUpdateComponent(table, next, c) ==
    LET existing ==
            IF c.ID # "" THEN GetComponentByXname(table, c.ID)
            ELSE IF c.UID # NilUUID THEN GetComponentByUID(table, c.UID)
            ELSE Found(ZeroComponent, NilError)
    IN  IF existing.err # NilError /\ existing.err # ErrNoRows
        THEN Stored(existing.err, table, next)
        ELSE IF existing.component.UID # NilUUID
        THEN Stored(NilError, {IF row.ID = c.ID THEN c ELSE row : row \in table}, next)
        ELSE IF \E row \in table : row.ID = c.ID
        THEN Stored(UniqueViolation("id", c.ID), table, next + 1)
        ELSE Stored(NilError, table \cup {[c EXCEPT !.UID = next]}, next + 1)

\* The loop: the components are stored in list order, and the first error is
\* returned with the components before it stored.
RECURSIVE CreateOrUpdateAll(_, _, _)
CreateOrUpdateAll(table, next, list) ==
    IF list = << >>
    THEN Stored(NilError, table, next)
    ELSE LET first == CreateOrUpdateComponent(table, next, Head(list))
         IN  IF first.err # NilError
             THEN first
             ELSE CreateOrUpdateAll(first.table, first.next, Tail(list))

\* A call of DuckDBStorage.CreateOrUpdateComponents.
CreateOrUpdateComponents(list) ==
    LET stored == CreateOrUpdateAll(componentsTable, nextComponentUID, list)
    IN  /\ nextComponentUID <= MaxComponents
        /\ componentsTable' = stored.table
        /\ nextComponentUID' = stored.next
        /\ componentsErr' = stored.err
        /\ UNCHANGED <<managerVars, nextUUID, result, workerVars, inventoryVars, foundNodes,
                       snapshotVars, shutdownVars, loggerVars, xnameVars>>

\* The components of the requests: two IDs, each without a UID and with the
\* UID of its caller, enabled or not, and a component without an ID.
CallerUIDs == {NilUUID, 9}
RequestComponents ==
    {Component(uid, id, enabled) :
        uid \in CallerUIDs, id \in {XNameA, XNameB}, enabled \in BOOLEAN}
    \cup {Component(9, "", TRUE)}
ComponentLists ==
    {<<c>> : c \in RequestComponents}
    \cup {<<c1, c2>> : c1 \in RequestComponents, c2 \in RequestComponents}

ComponentsNext == \E list \in ComponentLists : CreateOrUpdateComponents(list)
SpecComponents == Init /\ [][ComponentsNext]_vars

\* A well-formed component list: every component has an ID.
WellFormed(list) == \A i \in 1 .. Len(list) : list[i].ID # ""

\* C36: CreateOrUpdateComponents never returns an error for a well-formed
\* component list: a component whose ID is not stored is inserted, a
\* component whose ID is already stored is updated in place, and after any
\* sequence of calls there is exactly one row per component ID.
C36_CreateOrUpdateNeverFails ==
    /\ [](\A row1, row2 \in componentsTable : row1.ID = row2.ID => row1 = row2)
    /\ [][\A list \in ComponentLists :
             ( WellFormed(list) /\ CreateOrUpdateComponents(list) )
             => ( /\ componentsErr' = NilError
                  /\ \A i \in 1 .. Len(list) :
                         Cardinality({row \in componentsTable' : row.ID = list[i].ID}) = 1
                  /\ \A row \in componentsTable :
                         \E kept \in componentsTable' : kept.ID = row.ID )]_vars

\* ------------------------------------------------------------------------
\* The event logger: StartPeriodicFlush, its goroutine, and Stop
\* ------------------------------------------------------------------------

\* No goroutine of the process has panicked.
LoggerAlive ==
    /\ loggerConfig.Created
    /\ flushLoop # "panicked"
    /\ stopCall # "panicked"

\* NewEventLogger: the table events is created and shutdownChan is made.
NewEventLogger(config) ==
    /\ ~loggerConfig.Created
    /\ loggerConfig' = config
    /\ shutdownChan' = "open"
    /\ eventsTable' = {}
    /\ UNCHANGED <<managerVars, nextUUID, result, workerVars, inventoryVars, foundNodes,
                   snapshotVars, shutdownVars, componentVars, xnameVars, loggerWG,
                   eventFiles, flushLoop, stopCall>>

\* LogEvent: the event is inserted into the table events.
LogEvent(event) ==
    /\ LoggerAlive
    /\ eventsTable' = eventsTable \cup {event}
    /\ UNCHANGED <<managerVars, nextUUID, result, workerVars, inventoryVars, foundNodes,
                   snapshotVars, shutdownVars, componentVars, xnameVars, loggerConfig,
                   shutdownChan, loggerWG, eventFiles, flushLoop, stopCall>>

\* StartPeriodicFlush: the two tickers are made and the goroutine is started.
StartPeriodicFlush ==
    /\ LoggerAlive
    /\ flushLoop = "none"
    /\ flushLoop' = "select"
    /\ UNCHANGED <<managerVars, nextUUID, result, workerVars, inventoryVars, foundNodes,
                   snapshotVars, shutdownVars, componentVars, xnameVars, loggerConfig,
                   shutdownChan, loggerWG, eventsTable, eventFiles, stopCall>>

\* The select of the goroutine, case writeTicker.C: FlushEvents is called.
FlushLoopTick ==
    /\ LoggerAlive
    /\ flushLoop = "select"
    /\ flushLoop' = "flush"
    /\ UNCHANGED <<managerVars, nextUUID, result, workerVars, inventoryVars, foundNodes,
                   snapshotVars, shutdownVars, componentVars, xnameVars, loggerConfig,
                   shutdownChan, loggerWG, eventsTable, eventFiles, stopCall>>

\* The select of the goroutine, case cleanupTicker.C: CleanupEvents, which
\* clears the table unless the events are retained.
CleanupEvents ==
    /\ LoggerAlive
    /\ flushLoop = "select"
    /\ eventsTable' = IF loggerConfig.RetainInDB THEN eventsTable ELSE {}
    /\ UNCHANGED <<managerVars, nextUUID, result, workerVars, inventoryVars, foundNodes,
                   snapshotVars, shutdownVars, componentVars, xnameVars, loggerConfig,
                   shutdownChan, loggerWG, eventFiles, flushLoop, stopCall>>

\* The select of the goroutine, case shutdownChan: a receive from the channel
\* succeeds once it is closed; the final FlushEvents is called.
FlushLoopShutdown ==
    /\ LoggerAlive
    /\ flushLoop = "select"
    /\ shutdownChan = "closed"
    /\ flushLoop' = "finalFlush"
    /\ UNCHANGED <<managerVars, nextUUID, result, workerVars, inventoryVars, foundNodes,
                   snapshotVars, shutdownVars, componentVars, xnameVars, loggerConfig,
                   shutdownChan, loggerWG, eventsTable, eventFiles, stopCall>>

\* FlushEvents, its first statement: el.wg.Add(1).
FlushEventsBegin ==
    /\ LoggerAlive
    /\ flushLoop \in {"flush", "finalFlush"}
    /\ loggerWG' = loggerWG + 1
    /\ flushLoop' = IF flushLoop = "flush" THEN "flushing" ELSE "finalFlushing"
    /\ UNCHANGED <<managerVars, nextUUID, result, workerVars, inventoryVars, foundNodes,
                   snapshotVars, shutdownVars, componentVars, xnameVars, loggerConfig,
                   shutdownChan, eventsTable, eventFiles, stopCall>>

\* FlushEvents, the rest: the events of the table are appended to the files,
\* the table is cleared unless the events are retained, and the deferred
\* el.wg.Done() runs.
FlushEventsEnd ==
    /\ LoggerAlive
    /\ flushLoop \in {"flushing", "finalFlushing"}
    /\ eventFiles' = eventFiles \cup eventsTable
    /\ eventsTable' = IF loggerConfig.RetainInDB THEN eventsTable ELSE {}
    /\ loggerWG' = loggerWG - 1
    /\ flushLoop' = IF flushLoop = "flushing" THEN "select" ELSE "closing"
    /\ UNCHANGED <<managerVars, nextUUID, result, workerVars, inventoryVars, foundNodes,
                   snapshotVars, shutdownVars, componentVars, xnameVars, loggerConfig,
                   shutdownChan, stopCall>>

\* The goroutine after the final flush: the tickers are stopped and
\* shutdownChan is closed, which panics when the channel is closed already.
FlushLoopClose ==
    /\ LoggerAlive
    /\ flushLoop = "closing"
    /\ IF shutdownChan = "closed"
       THEN flushLoop' = "panicked" /\ UNCHANGED shutdownChan
       ELSE flushLoop' = "returned" /\ shutdownChan' = "closed"
    /\ UNCHANGED <<managerVars, nextUUID, result, workerVars, inventoryVars, foundNodes,
                   snapshotVars, shutdownVars, componentVars, xnameVars, loggerConfig,
                   loggerWG, eventsTable, eventFiles, stopCall>>

\* Stop, its first statement: close(el.shutdownChan).
StopClose ==
    /\ LoggerAlive
    /\ stopCall = "none"
    /\ IF shutdownChan = "closed"
       THEN stopCall' = "panicked" /\ UNCHANGED shutdownChan
       ELSE stopCall' = "waiting" /\ shutdownChan' = "closed"
    /\ UNCHANGED <<managerVars, nextUUID, result, workerVars, inventoryVars, foundNodes,
                   snapshotVars, shutdownVars, componentVars, xnameVars, loggerConfig,
                   loggerWG, eventsTable, eventFiles, flushLoop>>

\* Stop, its second statement: el.wg.Wait() returns when the counter is zero.
StopWait ==
    /\ LoggerAlive
    /\ stopCall = "waiting"
    /\ loggerWG = 0
    /\ stopCall' = "returned"
    /\ UNCHANGED <<managerVars, nextUUID, result, workerVars, inventoryVars, foundNodes,
                   snapshotVars, shutdownVars, componentVars, xnameVars, loggerConfig,
                   shutdownChan, loggerWG, eventsTable, eventFiles, flushLoop>>

\* The events logged, and the configurations of the logger.
Events == {"created", "deleted"}
LoggerConfigs == {EventLoggerConfig(TRUE, retainInDB) : retainInDB \in BOOLEAN}

LoggerNext ==
    \/ \E config \in LoggerConfigs : NewEventLogger(config)
    \/ \E event \in Events : LogEvent(event)
    \/ StartPeriodicFlush
    \/ FlushLoopTick
    \/ CleanupEvents
    \/ FlushLoopShutdown
    \/ FlushEventsBegin
    \/ FlushEventsEnd
    \/ FlushLoopClose
    \/ StopClose
    \/ StopWait

SpecLogger == Init /\ [][LoggerNext]_vars

\* C40: in the event logger, Stop after StartPeriodicFlush shuts the flush
\* goroutine down cleanly: the shutdown channel is closed exactly once (no
\* second close by the goroutine), and Stop returns only after the final
\* flush triggered by the shutdown has completed.
C40_StopIsClean ==
    /\ flushLoop # "panicked"
    /\ ( stopCall = "returned" /\ flushLoop # "none" )
       => flushLoop \in {"closing", "returned"}

====
